---- MODULE Spec2Model ----
(***************************************************************************)
(* Model of the ComfyUI MCP server core: the history poll of               *)
(* ComfyUIClient (_wait_for_prompt), the extraction of the first asset,    *)
(* the workflow tools that deliver the result, and the preview encoder     *)
(* with its module-level preview cache.                                    *)
(*                                                                         *)
(* JSON values are modelled by their shape: a record with a "shape" field  *)
(* ("absent", "null", "scalar", "list", "dict"/"map", ...) and the content *)
(* the code reads.  A Python exception the code raises on purpose is the   *)
(* outcome "Failed"; an exception the code does not expect (TypeError,     *)
(* AttributeError) is the outcome "Crashed".                               *)
(***************************************************************************)
EXTENDS Integers, Sequences, FiniteSets, TLC

VARIABLES
    \* ---- one run_workflow tool call (tools/workflow.py, comfyui_client.py)
    pc,            \* "idle" | "polling" | "polled" | "done"
    submitReply,   \* the engine's answer to POST /prompt
    prompt_id,     \* job id returned by _queue_workflow ("" before submission)
    max_attempts,  \* the max_attempts argument of _wait_for_prompt
    attempt,       \* number of loop iterations of _wait_for_prompt made so far
    pollOutcome,   \* what _wait_for_prompt returned or raised
    runResult,     \* what run_custom_workflow returned or raised
    toolResult,    \* what the tool returned to its caller
    registered,    \* asset URLs registered in the AssetRegistry, in order
    lastResp,      \* the /history/{prompt_id} response seen by the last attempt
    lastFull,      \* what /history held during the last attempt
    fetchedFull,   \* whether the last attempt fetched /history
    transients,    \* number of attempts that met a transient condition
    allQuiet,      \* every attempt so far saw "no terminal signal" (claim's sense)
    allQuietA,     \* every attempt so far saw no terminal signal (code's sense)
    \* ---- pure-function harness for _extract_first_asset_info
    xOutputs, xKeys, xResult,
    \* ---- harness for PublishManager.resolve_source_path
    srcCall,       \* the configured output root, the arguments and the result
    \* ---- preview cache and encode_preview_for_mcp (asset_processor.py)
    cache,         \* _preview_cache: sequence of [key, val] in insertion order
    enc,           \* the encode_preview_for_mcp call in progress
    calls,         \* number of encode_preview_for_mcp calls started
    order,         \* the asset ids of the keys now cached, oldest insertion
                   \* first (kept by the cache harness, whose keys differ
                   \* in the asset id only)
    threads,       \* overlapping calls of _cache_preview: for each thread
                   \* the statement it is at and its local values
    \* ---- PublishManager.copy_asset and update_manifest (publish_manager.py)
    pil,           \* PIL_AVAILABLE: whether Pillow could be imported
    target_path,   \* the file at target_path (NoFile when absent)
    temp_path,     \* the file at target_path + ".tmp"
    publish_log,   \* the entries of publish_log.jsonl
    copy,          \* the copy_asset call in progress or just ended
    copies,        \* number of copy_asset calls started
    manifest,      \* the content of manifest.json
    updaters,      \* overlapping update_manifest calls, one per thread
    \* ---- AssetRegistry (asset_registry.py)
    _assets,       \* _assets: asset id -> record
    _url_to_asset_id, \* _url_to_asset_id: asset URL -> asset id
    now,           \* datetime.now(), in hours
    issued,        \* number of asset ids issued by uuid4 so far
    lookup         \* the last registry call and what it returned

pollVars == <<pc, submitReply, prompt_id, max_attempts, attempt, pollOutcome, runResult, toolResult,
              registered, lastResp, lastFull, fetchedFull, transients,
              allQuiet, allQuietA>>
extractVars == <<xOutputs, xKeys, xResult, srcCall>>
cacheVars == <<cache, enc, calls, order, threads>>
publishVars == <<pil, target_path, temp_path, publish_log, copy, copies, manifest, updaters>>
registryVars == <<_assets, _url_to_asset_id, now, issued, lookup>>
vars == <<pollVars, extractVars, cacheVars, publishVars, registryVars>>

----------------------------------------------------------------------------
(* Bounds of the model *)

MaxAttempts == 3

----------------------------------------------------------------------------
(* JSON shapes of a node output and of the outputs mapping *)

NoItems == <<>>

\* an element of an asset list: a dict with a filename ("" = missing or empty)
\* or something that is not a dict; filenameNull marks "filename": null
Asset(fn, sub, ty) ==
    [isDict |-> TRUE, filename |-> fn, subfolder |-> sub, type |-> ty,
     filenameNull |-> FALSE]
NotADict ==
    [isDict |-> FALSE, filename |-> "", subfolder |-> "", type |-> "",
     filenameNull |-> FALSE]
NullFilename ==
    [isDict |-> TRUE, filename |-> "", subfolder |-> "", type |-> "",
     filenameNull |-> TRUE]

\* the value a node output holds under one key
AbsentVal == [shape |-> "absent", items |-> NoItems]
ListVal(items) == [shape |-> "list", items |-> items]

NodeKeys == {"images", "image", "text"}

\* a node of the outputs mapping: its id and, when its output is a dict,
\* the value under each key
Node(id, isDict, out) == [id |-> id, isDict |-> isDict, out |-> out]

NodeOut(imagesVal, imageVal, textVal) ==
    [k \in NodeKeys |-> CASE k = "images" -> imagesVal
                          [] k = "image" -> imageVal
                          [] OTHER -> textVal]

\* the outputs value of a history entry
AbsentOutputs == [shape |-> "absent", nodes |-> <<>>]
NullOutputs == [shape |-> "null", nodes |-> <<>>]
EmptyMapOutputs == [shape |-> "empty", nodes |-> <<>>]
ListOutputs == [shape |-> "list", nodes |-> <<>>]
MapOutputs(nodes) == [shape |-> "map", nodes |-> nodes]

\* Python truthiness of an outputs value
Truthy(outputs) == outputs.shape \in {"list", "map"}

----------------------------------------------------------------------------
(* ComfyUIClient._extract_first_asset_info *)

BaseUrl == "http://x"

\* the characters of the file and folder names the model uses
Chars(s) ==
    CASE s = "a.png" -> <<"a", ".", "p", "n", "g">>
      [] s = "b.png" -> <<"b", ".", "p", "n", "g">>
      [] s = "clip.mp4" -> <<"c", "l", "i", "p", ".", "m", "p", "4">>
      [] s = "a b&c.png" -> <<"a", " ", "b", "&", "c", ".", "p", "n", "g">>
      [] s = "sub/dir" -> <<"s", "u", "b", "/", "d", "i", "r">>
      [] OTHER -> <<>>

\* the characters quote never encodes: letters, digits and "_.-~"
Unreserved ==
    {"a", "b", "c", "d", "g", "i", "l", "m", "n", "p", "r", "s", "u", "4", ".", "_", "-", "~"}

\* the names written as they are, without quote
QuoteNothing(s) == Chars(s)

\* "%XX" of a character of the model's names that is not unreserved
PercentEncoded(c) ==
    CASE c = " " -> "%20"
      [] c = "&" -> "%26"
      [] c = "/" -> "%2F"
      [] c = "?" -> "%3F"

\* urllib.parse.quote(s, safe=''): unreserved characters are kept, every
\* other character becomes %XX ("/" too, since safe is empty)
Quote(s) ==
    [i \in 1..Len(Chars(s)) |->
        IF Chars(s)[i] \in Unreserved THEN Chars(s)[i] ELSE PercentEncoded(Chars(s)[i])]

\* asset.get("type", "output"): "" stands for a missing type key
OutputType(asset) == IF asset.type = "" THEN "output" ELSE asset.type

\* the f-string of the asset URL, piece by piece; the subfolder parameter is
\* written only when the encoded subfolder is non-empty
AssetUrl(asset) ==
    LET encoded_filename == Quote(asset.filename)
        encoded_subfolder == IF asset.subfolder # "" THEN Quote(asset.subfolder) ELSE <<>>
    IN  IF encoded_subfolder # <<>>
        THEN <<BaseUrl, "/view?filename=">> \o encoded_filename
               \o <<"&subfolder=">> \o encoded_subfolder
               \o <<"&type=", OutputType(asset)>>
        ELSE <<BaseUrl, "/view?filename=">> \o encoded_filename
               \o <<"&type=", OutputType(asset)>>

NoUrl == <<>>

\* the dict returned for a match
FoundAsset(asset) ==
    [kind |-> "found", filename |-> asset.filename, subfolder |-> asset.subfolder,
     type |-> OutputType(asset), asset_url |-> AssetUrl(asset), available |-> <<>>]

\* the exception raised when nothing matches: its message lists, for each
\* node, the keys its output holds (or that the output is not a dict)
AvailableOutputs(nodes) ==
    [i \in 1..Len(nodes) |->
        [id |-> nodes[i].id, isDict |-> nodes[i].isDict,
         keys |-> IF nodes[i].isDict
                  THEN {k \in NodeKeys : nodes[i].out[k].shape # "absent"}
                  ELSE {}]]

NoMatchingOutput(nodes) ==
    [kind |-> "no_match", filename |-> "", subfolder |-> "", type |-> "",
     asset_url |-> NoUrl, available |-> AvailableOutputs(nodes)]

\* outputs.items() on a value that is no mapping: AttributeError
ExtractCrashed ==
    [kind |-> "crashed", filename |-> "", subfolder |-> "", type |-> "",
     asset_url |-> NoUrl, available |-> <<>>]

NotExtracted ==
    [kind |-> "none", filename |-> "", subfolder |-> "", type |-> "",
     asset_url |-> NoUrl, available |-> <<>>]

\* "if assets and isinstance(assets, list) and len(assets) > 0", then
\* assets[0] must be a dict with a non-empty filename
FirstElementMatches(assets) ==
    /\ assets.shape = "list"
    /\ Len(assets.items) > 0
    /\ assets.items[1].isDict
    /\ assets.items[1].filename # ""

\* the inner loop "for key in preferred_output_keys", from position j
RECURSIVE ScanKeys(_, _, _)
ScanKeys(out, keys, j) ==
    IF j > Len(keys) THEN NotExtracted
    ELSE IF FirstElementMatches(out[keys[j]])
         THEN FoundAsset(out[keys[j]].items[1])
         ELSE ScanKeys(out, keys, j + 1)

\* the outer loop "for node_id, node_output in outputs.items()", from node i
RECURSIVE ScanNodes(_, _, _)
ScanNodes(nodes, keys, i) ==
    IF i > Len(nodes) THEN NoMatchingOutput(nodes)
    ELSE IF ~nodes[i].isDict THEN ScanNodes(nodes, keys, i + 1)
    ELSE LET r == ScanKeys(nodes[i].out, keys, 1)
         IN  IF r.kind = "found" THEN r ELSE ScanNodes(nodes, keys, i + 1)

\* the same scan with the loops nested the other way round (key priority first)
RECURSIVE KeyMajorNodes(_, _, _)
KeyMajorNodes(nodes, key, i) ==
    IF i > Len(nodes) THEN NotExtracted
    ELSE IF nodes[i].isDict /\ FirstElementMatches(nodes[i].out[key])
         THEN FoundAsset(nodes[i].out[key].items[1])
         ELSE KeyMajorNodes(nodes, key, i + 1)

RECURSIVE KeyMajorScan(_, _, _)
KeyMajorScan(nodes, keys, j) ==
    IF j > Len(keys) THEN NoMatchingOutput(nodes)
    ELSE LET r == KeyMajorNodes(nodes, keys[j], 1)
         IN  IF r.kind = "found" THEN r ELSE KeyMajorScan(nodes, keys, j + 1)

ScanKeyMajor(nodes, keys) == KeyMajorScan(nodes, keys, 1)

\* the scan that stops at the first node holding any preferred key, matching
\* or not
ScanGiveUpEarly(nodes, keys) ==
    IF Len(nodes) = 0 \/ ~nodes[1].isDict THEN NoMatchingOutput(nodes)
    ELSE LET r == ScanKeys(nodes[1].out, keys, 1)
         IN  IF r.kind = "found" THEN r ELSE NoMatchingOutput(nodes)

ScanOutputs(nodes, keys) == ScanNodes(nodes, keys, 1)

_extract_first_asset_info(outputs, preferred_output_keys) ==
    IF outputs.shape \notin {"map", "empty"} THEN ExtractCrashed
    ELSE ScanOutputs(outputs.nodes, preferred_output_keys)

----------------------------------------------------------------------------
(* History payloads: the status of a job entry and its messages *)

\* one status message and the form it comes in: "pair" is the list
\* [type, data] whose data is a dict with a node_id, "pair_no_id" the list
\* [type, data] whose data has no node_id or is no dict, "short" the
\* one-element list [type], "str" the bare string type
MsgForm(type, form) == [type |-> type, form |-> form]
Msg(type) == MsgForm(type, "pair")

\* isinstance(msg, list) and len(msg) >= 2 and msg[0] == "execution_error"
IsErrorPair(msg) ==
    msg.type = "execution_error" /\ msg.form \in {"pair", "pair_no_id"}

\* the "messages" value of a status dict
AbsentMessages == [shape |-> "absent", items |-> <<>>]
NullMessages == [shape |-> "null", items |-> <<>>]
ScalarMessages == [shape |-> "scalar", items |-> <<>>]    \* truthy, not iterable
ListMessages(items) == [shape |-> "list", items |-> items]

\* the "status" value of a job entry: absent, a dict, the legacy list of
\* [type, data] entries, or anything else (null, a scalar)
AbsentStatus ==
    [shape |-> "absent", completed |-> "absent", status_str |-> "absent",
     messages |-> AbsentMessages, entries |-> <<>>]
ScalarStatus ==
    [shape |-> "scalar", completed |-> "absent", status_str |-> "absent",
     messages |-> AbsentMessages, entries |-> <<>>]
DictStatus(completed, status_str, messages) ==
    [shape |-> "dict", completed |-> completed, status_str |-> status_str,
     messages |-> messages, entries |-> <<>>]
LegacyStatus(entries) ==
    [shape |-> "list", completed |-> "absent", status_str |-> "absent",
     messages |-> AbsentMessages, entries |-> entries]

\* a job entry of the history: whether it has a top-level "error" key, its
\* status and its outputs
Entry(hasError, status, outputs) ==
    [hasError |-> hasError, status |-> status, outputs |-> outputs]
NoEntry == Entry(FALSE, AbsentStatus, AbsentOutputs)

\* what one GET /history/{prompt_id} meets
Response(kind, entry) == [kind |-> kind, entry |-> entry]
NoResponse == Response("none", NoEntry)

\* what GET /history meets
FullResponse(kind, outputs) == [kind |-> kind, outputs |-> outputs]

\* status.get("status_str", "") if isinstance(status, dict) else ""
StatusStr(status) ==
    IF status.shape = "dict" /\ status.status_str # "absent"
    THEN status.status_str ELSE ""

\* status.get("messages", []) if isinstance(status, dict)
\*   else status if isinstance(status, list) else []
MessagesOf(status) ==
    IF status.shape = "dict"
    THEN IF status.messages.shape = "absent" THEN ListMessages(<<>>)
         ELSE status.messages
    ELSE IF status.shape = "list" THEN ListMessages(status.entries)
    ELSE ListMessages(<<>>)

\* _has_status_message raises TypeError at "for msg in messages" when
\* messages is truthy and not iterable
HasStatusMessageRaises(messages) == messages.shape = "scalar"

\* ComfyUIClient._has_status_message, for an iterable or falsy messages value
_has_status_message(messages, target) ==
    IF messages.shape # "list" \/ Len(messages.items) = 0 THEN FALSE
    ELSE \E i \in 1..Len(messages.items) : messages.items[i].type = target

\* ComfyUIClient._extract_node_errors: "for msg in messages" raises TypeError
\* when the status dict's messages value is null or a scalar; otherwise the
\* tier the diagnostic is built from: "structured" is "Node <id> (<type>):
\* [<exception type>] <message>", "structured_no_id" the same with "?" for
\* the node id, "legacy" is "Execution error: <data>", "error_key" is
\* "Error: <error>", "status_dump" is "No detailed error info. Status: ..."
ExtractNodeErrorsRaises(prompt_data) ==
    /\ prompt_data.status.shape = "dict"
    /\ prompt_data.status.messages.shape \in {"null", "scalar"}

_extract_node_errors(prompt_data) ==
    LET status == prompt_data.status
        items == MessagesOf(status).items
        pairs == {i \in 1..Len(items) : IsErrorPair(items[i])}
    IN  IF status.shape = "dict" /\ pairs # {}
        THEN IF \E i \in pairs : items[i].form = "pair"
             THEN "structured" ELSE "structured_no_id"
        ELSE IF status.shape = "list" /\ pairs # {}
        THEN "legacy"
        ELSE IF prompt_data.hasError THEN "error_key"
        ELSE "status_dump"

----------------------------------------------------------------------------
(* ComfyUIClient._wait_for_prompt: one iteration of the loop *)

\* how an iteration ends: "retry" (continue), "Completed" (return outputs),
\* "Failed" (raise Exception(...), site names the raise), "Crashed" (an
\* exception no except clause of the loop catches); fetched tells whether
\* the iteration fetched the full history
Step(kind, outputs, site, diag, fetched) ==
    [kind |-> kind, outputs |-> outputs, site |-> site, diag |-> diag,
     fetched |-> fetched]

Retry == Step("retry", AbsentOutputs, "", "", FALSE)
RetryFetched == Step("retry", AbsentOutputs, "", "", TRUE)
Completed(outputs, fetched) == Step("Completed", outputs, "", "", fetched)
Failed(site, diag) == Step("Failed", AbsentOutputs, site, diag, FALSE)
Crashed == Step("Crashed", AbsentOutputs, "TypeError", "", FALSE)

\* raise Exception(f"...{self._extract_node_errors(prompt_data)}")
FailedWithNodeErrors(site, prompt_data) ==
    IF ExtractNodeErrorsRaises(prompt_data) THEN Crashed
    ELSE Failed(site, _extract_node_errors(prompt_data))

\* the conditions that end an iteration with "continue" before the job entry
\* is looked at: the except clauses (RequestException; ValueError, KeyError),
\* a status code that is not 200, a history that is no dict, a prompt id not
\* in the history, a job entry that is no dict
TransientKinds ==
    {"transport_error", "http_error", "bad_json", "not_mapping",
     "entry_not_mapping"}
RetryKinds == TransientKinds \cup {"absent"}

\* the full-history fetch inside the execution_success branch: outputs are
\* returned when the job is there with a truthy "outputs"; every exception
\* is swallowed
FullHistoryOutputs(full) ==
    IF full.kind = "entry" /\ Truthy(full.outputs)
    THEN Completed(full.outputs, TRUE)
    ELSE RetryFetched

\* the failure checks made before the outputs are looked at
FailureChecks(prompt_data) ==
    LET status == prompt_data.status IN
    IF prompt_data.hasError THEN Failed("error_key", "error_key")
    ELSE IF status.shape = "dict" /\ status.completed = "false"
    THEN Failed("not_completed", "messages")
    ELSE IF status.shape = "dict" /\ status.status_str = "error"
    THEN FailedWithNodeErrors("status_error", prompt_data)
    ELSE Retry

\* the branch taken when the job entry has no "outputs" key
OutputsMissing(prompt_data, full) ==
    LET status == prompt_data.status
        messages == MessagesOf(status)
    IN  IF StatusStr(status) = "error" THEN FailedWithNodeErrors("exec_failed", prompt_data)
        ELSE IF HasStatusMessageRaises(messages) THEN Crashed
        ELSE IF _has_status_message(messages, "execution_error")
        THEN FailedWithNodeErrors("exec_failed", prompt_data)
        ELSE IF _has_status_message(messages, "execution_success")
        THEN FullHistoryOutputs(full)
        ELSE Retry

\* the branch taken when "outputs" is there but falsy or no dict
OutputsEmpty(prompt_data) ==
    LET status == prompt_data.status
        messages == MessagesOf(status)
    IN  IF StatusStr(status) = "error" THEN FailedWithNodeErrors("exec_failed", prompt_data)
        ELSE IF HasStatusMessageRaises(messages) THEN Crashed
        ELSE IF _has_status_message(messages, "execution_error")
        THEN FailedWithNodeErrors("exec_failed", prompt_data)
        ELSE IF _has_status_message(messages, "execution_success")
        THEN Retry
        ELSE FailedWithNodeErrors("no_outputs", prompt_data)

\* the part of an iteration that reads the outputs of the job entry
OutputsBranch(prompt_data, full) ==
    IF prompt_data.outputs.shape = "absent" THEN OutputsMissing(prompt_data, full)
    ELSE IF prompt_data.outputs.shape # "map" THEN OutputsEmpty(prompt_data)
    ELSE Completed(prompt_data.outputs, FALSE)

\* a transient condition that raises out of the poll instead of continuing
TransientRaises(kind) ==
    IF kind = "transport_error" THEN Failed("transport", "") ELSE Retry

\* what a condition met before the job entry is read does to the iteration
BeforeEntry(kind) == Retry

\* one iteration of the for loop
PollIteration(resp, full) ==
    IF resp.kind \in RetryKinds THEN BeforeEntry(resp.kind)
    ELSE LET checked == FailureChecks(resp.entry)
         IN  IF checked.kind # "retry" THEN checked
             ELSE OutputsBranch(resp.entry, full)

\* what _wait_for_prompt has returned or raised
Outcome(kind, outputs, site, diag) ==
    [kind |-> kind, outputs |-> outputs, site |-> site, diag |-> diag]
NoOutcome == Outcome("none", AbsentOutputs, "", "")

\* the loop is over and the poll raises a timeout error
ExhaustedRaises == Outcome("Failed", AbsentOutputs, "timeout", "")

\* the loop is over without a return or a raise: "return None"
Exhausted == Outcome("StillRunning", AbsentOutputs, "", "")

----------------------------------------------------------------------------
(* run_custom_workflow and the workflow tools *)

\* the default preferred_output_keys, ("images", "image", "gifs", ...), cut to
\* the keys the nodes of the model hold
DefaultKeys == <<"images", "image">>

\* filename.endswith(suffix)
EndsWith(chars, suffix) ==
    /\ Len(chars) >= Len(suffix)
    /\ SubSeq(chars, Len(chars) - Len(suffix) + 1, Len(chars)) = suffix

\* the mime type _get_asset_metadata infers from the extension ("" when it
\* knows none)
MimeOf(filename) ==
    CASE EndsWith(Chars(filename), <<".", "p", "n", "g">>) -> "image/png"
      [] EndsWith(Chars(filename), <<".", "m", "p", "4">>) -> "video/mp4"
      [] OTHER -> ""

\* what _get_asset_metadata returns, or that it raised
Metadata(kind, mime_type) == [kind |-> kind, mime_type |-> mime_type]

\* the inner loop of _get_asset_metadata over the preferred keys of one node:
\* the first key holding a non-empty list whose first element is a dict sets
\* the mime type (when the extension is known) and ends the loop;
\* None.endswith raises AttributeError
RECURSIVE MetadataKeys(_, _, _, _)
MetadataKeys(out, keys, j, mime) ==
    IF j > Len(keys) THEN Metadata("ok", mime)
    ELSE LET assets == out[keys[j]] IN
         IF assets.shape = "list" /\ Len(assets.items) > 0 /\ assets.items[1].isDict
         THEN IF assets.items[1].filenameNull THEN Metadata("crashed", mime)
              ELSE IF MimeOf(assets.items[1].filename) # ""
              THEN Metadata("ok", MimeOf(assets.items[1].filename))
              ELSE Metadata("ok", mime)
         ELSE MetadataKeys(out, keys, j + 1, mime)

\* the outer loop over the nodes; the break leaves the inner loop only
RECURSIVE MetadataNodes(_, _, _, _)
MetadataNodes(nodes, keys, i, mime) ==
    IF i > Len(nodes) THEN Metadata("ok", mime)
    ELSE IF ~nodes[i].isDict THEN MetadataNodes(nodes, keys, i + 1, mime)
    ELSE LET r == MetadataKeys(nodes[i].out, keys, 1, mime)
         IN  IF r.kind = "crashed" THEN r
             ELSE MetadataNodes(nodes, keys, i + 1, r.mime_type)

\* ComfyUIClient._get_asset_metadata: the scan of the outputs, then the HEAD
\* request, whose failure is swallowed and whose Content-Type is used only
\* when the scan found no mime type
_get_asset_metadata(outputs, preferred_output_keys, head) ==
    LET r == MetadataNodes(outputs.nodes, preferred_output_keys, 1, "")
    IN  IF r.kind = "ok" /\ r.mime_type = "" /\ head = "ok"
        THEN Metadata("ok", "content-type")
        ELSE r

\* what run_custom_workflow returns or raises; comfy_history is "snapshot",
\* or "none" when get_history failed
RunResult(kind, pid, info, error) ==
    [kind |-> kind, prompt_id |-> pid, info |-> info, error |-> error,
     mime_type |-> "", comfy_history |-> "none"]
NoRunResult == RunResult("none", "", NotExtracted, "")

\* ComfyUIClient.run_custom_workflow after the poll: the job handle when the
\* poll returned None, else the extracted asset with its metadata and the
\* history snapshot; exceptions of the poll, of the extraction and of
\* _get_asset_metadata propagate, those of get_history are swallowed
run_custom_workflow(outcome, pid, keys, head, snapshot) ==
    IF outcome.kind = "StillRunning"
    THEN RunResult("handle", pid, NotExtracted, "")
    ELSE IF outcome.kind \in {"Failed", "Crashed"}
    THEN RunResult("raise", pid, NotExtracted, outcome.site)
    ELSE LET asset_info == _extract_first_asset_info(outcome.outputs, keys)
             asset_metadata == _get_asset_metadata(outcome.outputs, keys, head)
         IN  IF asset_info.kind # "found"
             THEN RunResult("raise", pid, asset_info, asset_info.kind)
             ELSE IF asset_metadata.kind = "crashed"
             THEN RunResult("raise", pid, asset_info, "AttributeError")
             ELSE [RunResult("asset", pid, asset_info, "") EXCEPT
                      !.mime_type = asset_metadata.mime_type,
                      !.comfy_history = IF snapshot = "ok" THEN "snapshot" ELSE "none"]

\* what a tool returns to the MCP caller
ToolResult(kind, pid, url, error) ==
    [kind |-> kind, prompt_id |-> pid, asset_url |-> url, error |-> error]
NoToolResult == ToolResult("none", "", NoUrl, "")

\* tools/helpers.py register_and_build_response on a job handle:
\* result["asset_url"] raises KeyError before register_asset is called, and
\* the tool's "except Exception" turns it into {"error": "'asset_url'"}
HandleResponse(result) == ToolResult("error", "", NoUrl, "KeyError: asset_url")

\* run_workflow / the generated tools: run_custom_workflow, then
\* register_and_build_response, the whole in try/except Exception
ToolResponse(result) ==
    CASE result.kind = "raise" -> ToolResult("error", "", NoUrl, result.error)
      [] result.kind = "handle" -> HandleResponse(result)
      [] OTHER -> ToolResult("asset", result.prompt_id, result.info.asset_url, "")

\* AssetRegistry.register_asset is reached only with an asset URL
ToolRegisters(result) == result.kind = "asset"

----------------------------------------------------------------------------
(* Inputs of the poll: what the engine may answer *)

PromptIds == {"p1", "p2"}

ImgA == Asset("a.png", "", "output")
\* {"filename": "b.png"}: no subfolder key and no type key
ImgB == Asset("b.png", "", "")

\* {"9": {"images": [a.png]}, "3": {"image": [b.png]}} iterated as 9 then 3
OutputsAB ==
    MapOutputs(<<Node("9", TRUE, NodeOut(ListVal(<<ImgA>>), AbsentVal, AbsentVal)),
                 Node("3", TRUE, NodeOut(AbsentVal, ListVal(<<ImgB>>), AbsentVal))>>)
\* a mapping that holds no asset under a preferred key
OutputsText ==
    MapOutputs(<<Node("7", TRUE, NodeOut(AbsentVal, AbsentVal, ListVal(<<NotADict>>)))>>)

\* {"9": {"images": [{"filename": null}]}, "3": {"image": [b.png]}}
OutputsNullFirst ==
    MapOutputs(<<Node("9", TRUE, NodeOut(ListVal(<<NullFilename>>), AbsentVal, AbsentVal)),
                 Node("3", TRUE, NodeOut(AbsentVal, ListVal(<<ImgB>>), AbsentVal))>>)

\* {"9": {"images": [a.png]}, "3": {"image": [clip.mp4]}}: two nodes that
\* produce assets of different kinds
Clip == Asset("clip.mp4", "", "output")
OutputsMixed ==
    MapOutputs(<<Node("9", TRUE, NodeOut(ListVal(<<ImgA>>), AbsentVal, AbsentVal)),
                 Node("3", TRUE, NodeOut(AbsentVal, ListVal(<<Clip>>), AbsentVal))>>)

PollOutputs ==
    {AbsentOutputs, NullOutputs, EmptyMapOutputs, ListOutputs, OutputsAB, OutputsText,
     OutputsNullFirst, OutputsMixed}

MsgLists ==
    {<<>>, <<Msg("execution_start")>>,
     <<Msg("execution_start"), Msg("execution_success")>>,
     <<Msg("execution_start"), Msg("execution_error")>>,
     <<Msg("execution_start"), MsgForm("execution_error", "pair_no_id")>>,
     <<MsgForm("execution_error", "short")>>,
     <<MsgForm("execution_error", "str")>>}

MessagesDomain ==
    {AbsentMessages, NullMessages, ScalarMessages} \cup {ListMessages(l) : l \in MsgLists}

Statuses ==
    {AbsentStatus, ScalarStatus}
    \cup {DictStatus(c, s, m) : c \in {"absent", "true", "false"},
                                s \in {"absent", "success", "error"},
                                m \in MessagesDomain}
    \cup {LegacyStatus(l) : l \in MsgLists}

Entries == {Entry(e, st, o) : e \in BOOLEAN, st \in Statuses, o \in PollOutputs}

Responses ==
    {Response(k, NoEntry) : k \in RetryKinds} \cup {Response("entry", e) : e \in Entries}

FullResponses ==
    {FullResponse(k, AbsentOutputs) : k \in {"transport_error", "http_error", "absent"}}
    \cup {FullResponse("entry", o) : o \in PollOutputs \ {NullOutputs}}
NoFull == FullResponse("none", AbsentOutputs)

----------------------------------------------------------------------------
(* What the claims call a failure flag and a terminal signal *)

\* an explicit failure flag of a job entry: a top-level error key,
\* status.completed false, status_str "error", or an execution_error message
\* in the dict form or in the legacy list form of the status
FailureFlag(entry) ==
    \/ entry.hasError
    \/ entry.status.shape = "dict" /\ entry.status.completed = "false"
    \/ entry.status.shape = "dict" /\ entry.status.status_str = "error"
    \/ _has_status_message(MessagesOf(entry.status), "execution_error")

SuccessMessage(entry) ==
    _has_status_message(MessagesOf(entry.status), "execution_success")

\* the job entry reports execution_success and holds no outputs: the key is
\* absent or the mapping is empty
SuccessWithoutOutputs(resp) ==
    /\ resp.kind = "entry"
    /\ ~FailureFlag(resp.entry)
    /\ SuccessMessage(resp.entry)
    /\ resp.entry.outputs.shape \in {"absent", "empty"}

\* the status messages, when there are any, have a shape the code iterates:
\* a list (the legacy list status included), or no messages key at all
MessagesWellShaped(entry) ==
    entry.status.shape = "dict" => entry.status.messages.shape \in {"absent", "list"}

\* the full history holds outputs for the job
FullHoldsOutputs(full) == full.kind = "entry" /\ Truthy(full.outputs)

\* "no terminal signal": the job id is absent from the history, or the job
\* entry has no failure flag and no non-empty outputs mapping.  Read in the
\* claim's favour: the full history holds no outputs for the job either, and
\* the status messages are well shaped.
NoTerminalSignal(resp, full) ==
    /\ ~FullHoldsOutputs(full)
    /\ \/ resp.kind = "absent"
       \/ /\ resp.kind = "entry"
          /\ ~FailureFlag(resp.entry)
          /\ MessagesWellShaped(resp.entry)
          /\ resp.entry.outputs.shape # "map"

\* the same, as the code draws the line: an entry whose outputs key is
\* present (empty, null or no mapping) is no terminal signal only while its
\* status reports execution_success
NoTerminalSignalInCode(resp, full) ==
    /\ NoTerminalSignal(resp, full)
    /\ resp.kind = "entry" =>
          (resp.entry.outputs.shape = "absent" \/ SuccessMessage(resp.entry))

----------------------------------------------------------------------------
(* Submission: the answer to POST /prompt and _queue_workflow *)

\* the value under "prompt_id" in the answer's JSON object
IdAbsent == [t |-> "absent", s |-> ""]
IdNull == [t |-> "null", s |-> ""]
IdZero == [t |-> "number", s |-> "0"]
IdString(s) == [t |-> "string", s |-> s]
IdValues == {IdAbsent, IdNull, IdZero, IdString("")} \cup {IdString(p) : p \in PromptIds}

\* "not prompt_id" were it to test for a missing key only
OnlyMissingKey(v) == v.t = "absent"

\* Python's "not prompt_id"
IsFalsy(v) == v.t \in {"absent", "null"} \/ (v.t = "number" /\ v.s = "0")
                 \/ (v.t = "string" /\ v.s = "")

\* body: "not_json" (response.json() raises ValueError), "list" (JSON that
\* is no object) or "dict"
Reply(status_code, body, id) == [status_code |-> status_code, body |-> body, id |-> id]
NoReply == Reply(0, "none", IdAbsent)
StatusCodes == {200, 201, 500}
SubmitReplies ==
    {Reply(c, "dict", v) : c \in StatusCodes, v \in IdValues}
        \cup {Reply(c, b, IdAbsent) : c \in StatusCodes, b \in {"not_json", "list"}}

Queued(kind, pid, error) == [kind |-> kind, prompt_id |-> pid, error |-> error]

\* ComfyUIClient._queue_workflow
_queue_workflow(response) ==
    IF response.status_code # 200
    THEN Queued("raise", "", "Failed to queue workflow")
    ELSE IF response.body = "not_json"
    THEN Queued("raise", "", "Invalid response format from ComfyUI")
    ELSE IF response.body # "dict"
    THEN Queued("raise", "", "AttributeError")
    ELSE IF IsFalsy(response.id)
    THEN Queued("raise", "", "Response missing prompt_id")
    ELSE Queued("ok", response.id.s, "")

----------------------------------------------------------------------------
(* Actions of one tool call *)

InitPoll ==
    /\ pc = "idle"
    /\ submitReply = NoReply
    /\ prompt_id = ""
    /\ max_attempts = 0
    /\ attempt = 0
    /\ pollOutcome = NoOutcome
    /\ runResult = NoRunResult
    /\ toolResult = NoToolResult
    /\ registered = <<>>
    /\ lastResp = NoResponse
    /\ lastFull = NoFull
    /\ fetchedFull = FALSE
    /\ transients = 0
    /\ allQuiet = TRUE
    /\ allQuietA = TRUE

\* run_custom_workflow up to the start of the poll: POST /prompt through
\* _queue_workflow; when it raises, nothing is polled and the tool returns
\* the error
Submit ==
    /\ pc = "idle"
    /\ \E response \in SubmitReplies, n \in 1..MaxAttempts :
          LET queued == _queue_workflow(response) IN
          /\ submitReply' = response
          /\ IF queued.kind = "ok"
             THEN /\ pc' = "polling"
                  /\ prompt_id' = queued.prompt_id
                  /\ max_attempts' = n
                  /\ UNCHANGED <<runResult, toolResult>>
             ELSE /\ pc' = "done"
                  /\ runResult' = [NoRunResult EXCEPT !.kind = "raise",
                                                      !.error = queued.error]
                  /\ toolResult' = ToolResponse(runResult')
                  /\ UNCHANGED <<prompt_id, max_attempts>>
    /\ UNCHANGED <<attempt, pollOutcome, registered, lastResp, lastFull,
                   fetchedFull, transients, allQuiet, allQuietA>>
    /\ UNCHANGED <<extractVars, cacheVars, publishVars, registryVars>>

\* one iteration of the loop of _wait_for_prompt; the iteration that uses up
\* the last attempt without a return or a raise ends the loop: return None
PollAttempt ==
    /\ pc = "polling"
    /\ attempt < max_attempts
    /\ \E resp \in Responses :
       \E full \in (IF SuccessWithoutOutputs(resp) THEN FullResponses ELSE {NoFull}) :
          LET step == PollIteration(resp, full) IN
          /\ attempt' = attempt + 1
          /\ lastResp' = resp
          /\ lastFull' = full
          /\ fetchedFull' = step.fetched
          /\ transients' = IF resp.kind \in TransientKinds /\ transients < MaxAttempts
                           THEN transients + 1 ELSE transients
          /\ allQuiet' = (allQuiet /\ NoTerminalSignal(resp, full))
          /\ allQuietA' = (allQuietA /\ NoTerminalSignalInCode(resp, full))
          /\ pollOutcome' =
                IF step.kind = "retry"
                THEN IF attempt + 1 = max_attempts THEN Exhausted ELSE NoOutcome
                ELSE Outcome(step.kind, step.outputs, step.site, step.diag)
          /\ pc' = IF pollOutcome'.kind = "none" THEN "polling" ELSE "polled"
    /\ UNCHANGED <<submitReply, prompt_id, max_attempts, runResult, toolResult,
                   registered>>
    /\ UNCHANGED <<extractVars, cacheVars, publishVars, registryVars>>

\* the rest of the tool call: run_custom_workflow builds its result from the
\* poll's outcome and the tool registers the asset and builds the response
Deliver ==
    /\ pc = "polled"
    /\ \E head \in {"ok", "error"}, snapshot \in {"ok", "error"} :
       LET result == run_custom_workflow(pollOutcome, prompt_id, DefaultKeys,
                                         head, snapshot) IN
       /\ runResult' = result
       /\ toolResult' = ToolResponse(result)
       /\ registered' = IF ToolRegisters(result)
                        THEN Append(registered, result.info.asset_url)
                        ELSE registered
    /\ pc' = "done"
    /\ UNCHANGED <<submitReply, prompt_id, max_attempts, attempt, pollOutcome, lastResp,
                   lastFull, fetchedFull, transients, allQuiet, allQuietA>>
    /\ UNCHANGED <<extractVars, cacheVars, publishVars, registryVars>>

----------------------------------------------------------------------------
(* managers/publish_manager.py: resolve_source_path over a small file tree *)

\* a path: absolute or relative, and its components
PathOf(abs, parts) == [abs |-> abs, parts |-> parts]
NoPath == PathOf(FALSE, <<>>)

\* pathlib's "/": an absolute right operand replaces the left one
Join(a, b) == IF b.abs THEN b ELSE PathOf(a.abs, a.parts \o b.parts)

\* the file tree, by absolute path: directories, regular files, a fifo and
\* symbolic links (target: an absolute path)
FsNode(type, target) == [type |-> type, target |-> target]
Dir == FsNode("dir", <<>>)
File == FsNode("file", <<>>)
Link(target) == FsNode("symlink", target)
OutputRoot == <<"t", "comfyui", "output">>
FileTree ==
    (<<>> :> Dir) @@ (<<"t">> :> Dir) @@ (<<"t", "comfyui">> :> Dir)
    @@ (OutputRoot :> Dir)
    @@ (OutputRoot \o <<"a.png">> :> File)
    @@ (OutputRoot \o <<"sub">> :> Dir)
    @@ (OutputRoot \o <<"sub", "b.png">> :> File)
    @@ (OutputRoot \o <<"pipe">> :> FsNode("fifo", <<>>))
    @@ (OutputRoot \o <<"link.png">> :> Link(OutputRoot \o <<"sub", "b.png">>))
    @@ (OutputRoot \o <<"leak.png">> :> Link(<<"t", "outside", "test.png">>))
    @@ (OutputRoot \o <<"escape">> :> Link(<<"t", "outside">>))
    @@ (OutputRoot \o <<"loop">> :> Link(OutputRoot \o <<"loop">>))
    @@ (<<"t", "comfyui", "output2">> :> Dir)
    @@ (<<"t", "comfyui", "output2", "c.png">> :> File)
    @@ (<<"t", "comfyui", "outlink">> :> Link(OutputRoot))
    @@ (<<"t", "outside">> :> Dir)
    @@ (<<"t", "outside", "test.png">> :> File)

\* symbolic links followed in one resolution before the system gives up
MaxLinks == 3

Resolved(ok, path) == [ok |-> ok, path |-> path]

Front(path) == IF path = <<>> THEN <<>> ELSE SubSeq(path, 1, Len(path) - 1)

\* Path.resolve(strict=True): the components are walked from the root,
\* ".." steps to the parent of the resolved prefix, a symbolic link is
\* replaced by its target; a missing component, a component below
\* something that is no directory, or too many links fail (OSError or
\* RuntimeError).  Whether ".." below something that is no directory
\* fails or steps to the parent without a look at the file system depends
\* on the Python version: lexical tells which
RECURSIVE Walk(_, _, _, _)
Walk(cur, rest, links, lexical) ==
    IF rest = <<>> THEN Resolved(TRUE, cur)
    ELSE LET c == Head(rest)
             next == Append(cur, c)
         IN  IF c \in {"", "."} THEN Walk(cur, Tail(rest), links, lexical)
             ELSE IF c = ".." /\ lexical THEN Walk(Front(cur), Tail(rest), links, lexical)
             ELSE IF FileTree[cur].type # "dir" THEN Resolved(FALSE, cur)
             ELSE IF c = ".." THEN Walk(Front(cur), Tail(rest), links, lexical)
             ELSE IF next \notin DOMAIN FileTree THEN Resolved(FALSE, next)
             ELSE IF FileTree[next].type = "symlink"
             THEN IF links = 0 THEN Resolved(FALSE, next)
                  ELSE Walk(<<>>, FileTree[next].target \o Tail(rest), links - 1, lexical)
             ELSE Walk(next, Tail(rest), links, lexical)

\* canonicalize_path(path) with must_exist=True: the resolved path, or
\* ValueError (ok = FALSE); the process runs in the directory /t
canonicalize_path(path, lexical) ==
    Walk(<<>>, IF path.abs THEN path.parts ELSE <<"t">> \o path.parts, MaxLinks, lexical)

IsPrefix(parent, child) ==
    Len(parent) <= Len(child) /\ SubSeq(child, 1, Len(parent)) = parent

\* a containment test that lets every path pass
WithinAlways(child_path, parent_path, lexical) == TRUE

\* is_within(child_path, parent_path): both canonicalized, then
\* Path.is_relative_to; False when either cannot be resolved
is_within(child_path, parent_path, lexical) ==
    LET child_real == canonicalize_path(child_path, lexical)
        parent_real == canonicalize_path(parent_path, lexical)
    IN  child_real.ok /\ parent_real.ok /\ IsPrefix(parent_real.path, child_real.path)

SrcResult(kind, path, error) == [kind |-> kind, path |-> path, error |-> error]

\* PublishManager.resolve_source_path(subfolder, filename); root is
\* config.comfyui_output_root (configured FALSE: None)
resolve_source_path(configured, root, subfolder, filename, lexical) ==
    IF ~configured THEN SrcResult("ValueError", <<>>, "not configured")
    ELSE LET source_path == IF subfolder.parts # <<>> \/ subfolder.abs
                            THEN Join(Join(root, subfolder), filename)
                            ELSE Join(root, filename)
             source_real == canonicalize_path(source_path, lexical)
             output_root_real == canonicalize_path(root, lexical)
         IN  IF ~source_real.ok
             THEN SrcResult("ValueError", <<>>, "cannot be resolved")
             ELSE IF ~output_root_real.ok
             THEN SrcResult("ValueError", <<>>, "Cannot resolve path")
             ELSE IF ~is_within(PathOf(TRUE, source_real.path),
                                PathOf(TRUE, output_root_real.path), lexical)
             THEN SrcResult("ValueError", <<>>, "outside ComfyUI output root")
             ELSE IF source_real.path \notin DOMAIN FileTree
             THEN SrcResult("ValueError", <<>>, "does not exist")
             ELSE IF FileTree[source_real.path].type # "file"
             THEN SrcResult("ValueError", <<>>, "not a file")
             ELSE SrcResult("path", source_real.path, "")

\* the configured output roots tried: the directory, a link to it, a
\* directory that does not exist
Roots == {PathOf(TRUE, OutputRoot), PathOf(TRUE, <<"t", "comfyui", "outlink">>),
          PathOf(TRUE, <<"t", "missing">>)}
Subfolders ==
    {PathOf(FALSE, <<>>), PathOf(FALSE, <<"sub">>), PathOf(FALSE, <<"..", "..", "outside">>),
     PathOf(FALSE, <<"..", "output2">>), PathOf(FALSE, <<"escape">>),
     PathOf(FALSE, <<"sub", "..">>), PathOf(TRUE, <<"t", "outside">>),
     PathOf(FALSE, <<"a.png">>)}
Filenames ==
    {PathOf(FALSE, <<"a.png">>), PathOf(FALSE, <<"b.png">>), PathOf(FALSE, <<"test.png">>),
     PathOf(FALSE, <<"c.png">>), PathOf(FALSE, <<"nonexistent.png">>),
     PathOf(FALSE, <<"link.png">>), PathOf(FALSE, <<"leak.png">>),
     PathOf(FALSE, <<"loop">>), PathOf(FALSE, <<"pipe">>), PathOf(FALSE, <<"sub">>),
     PathOf(FALSE, <<"..", "a.png">>), PathOf(FALSE, <<"..", "..", "outside", "test.png">>),
     PathOf(TRUE, <<"t", "outside", "test.png">>), PathOf(FALSE, <<>>)}

SrcCall(called, configured, root, subfolder, filename, lexical, result) ==
    [called |-> called, configured |-> configured, root |-> root,
     subfolder |-> subfolder, filename |-> filename, lexical |-> lexical,
     result |-> result]
NoSrcCall ==
    SrcCall(FALSE, FALSE, NoPath, NoPath, NoPath, FALSE, SrcResult("none", <<>>, ""))

\* one call of resolve_source_path
ResolveSource ==
    /\ \E configured \in BOOLEAN, root \in Roots, subfolder \in Subfolders,
          filename \in Filenames, lexical \in BOOLEAN :
          srcCall' = SrcCall(TRUE, configured, root, subfolder, filename, lexical,
                             resolve_source_path(configured, root, subfolder,
                                                 filename, lexical))
    /\ UNCHANGED <<xOutputs, xKeys, xResult>>
    /\ UNCHANGED <<pollVars, cacheVars, publishVars, registryVars>>

----------------------------------------------------------------------------
(* Harness applying _extract_first_asset_info to bounded inputs *)

ImgSpace == Asset("a b&c.png", "sub/dir", "temp")
NoFilename == Asset("", "", "output")

\* values a node output may hold under a preferred key
AssetLists ==
    {AbsentVal, ListVal(<<>>), ListVal(<<NotADict>>), ListVal(<<NoFilename>>),
     ListVal(<<ImgA>>), ListVal(<<ImgB>>), ListVal(<<NotADict, ImgA>>),
     ListVal(<<ImgSpace, ImgB>>), [shape |-> "scalar", items |-> <<>>]}

TextVals == {AbsentVal, ListVal(<<NotADict>>)}

NodeIds == {"9", "3"}

NodeBodies ==
    {[isDict |-> TRUE, out |-> NodeOut(a, b, t)] :
        a \in AssetLists, b \in AssetLists, t \in TextVals}
    \cup {[isDict |-> FALSE, out |-> NodeOut(AbsentVal, AbsentVal, AbsentVal)]}

\* the outputs mappings: one node, or the two nodes in either order
XOutputsDomain ==
    {MapOutputs(<<Node(i, b.isDict, b.out)>>) : i \in NodeIds, b \in NodeBodies}
    \cup {MapOutputs(<<Node(ij[1], b.isDict, b.out), Node(ij[2], c.isDict, c.out)>>) :
            ij \in {p \in NodeIds \X NodeIds : p[1] # p[2]},
            b \in NodeBodies, c \in NodeBodies}

XKeysDomain == {<<"images", "image">>, <<"image", "images">>, <<"images">>}

IdleExtract ==
    /\ xOutputs = EmptyMapOutputs
    /\ xKeys = <<>>
    /\ xResult = NotExtracted
    /\ srcCall = NoSrcCall

InitExtract ==
    /\ xOutputs \in XOutputsDomain
    /\ xKeys \in XKeysDomain
    /\ xResult = NotExtracted
    /\ srcCall = NoSrcCall

Extract ==
    /\ xResult.kind = "none"
    /\ xResult' = _extract_first_asset_info(xOutputs, xKeys)
    /\ UNCHANGED <<xOutputs, xKeys, srcCall>>
    /\ UNCHANGED <<pollVars, cacheVars, publishVars, registryVars>>

----------------------------------------------------------------------------
(* asset_processor.py: the preview cache *)

\* "if len(_preview_cache) > 100"
CacheLimit == 100

\* get_cache_key(asset_id, max_dim, quality): f"{asset_id}:{max_dim}:webp:{quality}";
\* present is FALSE for cache_key=None
CacheKey(asset_id, max_dim, quality) ==
    [present |-> TRUE, asset_id |-> asset_id, max_dim |-> max_dim,
     format |-> "webp", quality |-> quality]
NoCacheKey ==
    [present |-> FALSE, asset_id |-> 0, max_dim |-> 0, format |-> "", quality |-> 0]

\* base64.b64encode: 4 characters for every 3 bytes, the last group padded
B64Len(n) == 4 * ((n + 2) \div 3)

\* the EncodedImage dataclass (b64 and raw_bytes stand by their lengths)
EncodedImage(bytes_len, size_px) ==
    [mime_type |-> "image/webp", size_px |-> size_px, bytes_len |-> bytes_len,
     b64_chars |-> B64Len(bytes_len)]
NoImage == [mime_type |-> "", size_px |-> <<0, 0>>, bytes_len |-> 0, b64_chars |-> 0]

CacheIndex(c, key) == {i \in 1..Len(c) : c[i].key = key}

\* _get_cached_preview: _preview_cache.get(cache_key); NoImage stands for None
_get_cached_preview(c, key) ==
    IF CacheIndex(c, key) = {} THEN NoImage
    ELSE c[CHOOSE i \in CacheIndex(c, key) : TRUE].val

\* _preview_cache[cache_key] = encoded: a key already there keeps its place
DictSet(c, key, encoded) ==
    IF CacheIndex(c, key) = {} THEN Append(c, [key |-> key, val |-> encoded])
    ELSE [i \in 1..Len(c) |-> IF c[i].key = key THEN [key |-> key, val |-> encoded]
                                                 ELSE c[i]]

\* the eviction test of _cache_preview
CacheIsFull(c) == Len(c) > CacheLimit

\* _cache_preview: pop the first key of the dict when the test says so, then
\* store
_cache_preview(c, key, encoded) ==
    DictSet(IF CacheIsFull(c) THEN Tail(c) ELSE c, key, encoded)

----------------------------------------------------------------------------
(* asset_processor.py: encode_preview_for_mcp *)

\* len("data:image/webp;base64,")
PrefixLen == 23

\* the last-resort pass: smallest_dim
SmallestDim == 256

\* bounds: calls of encode_preview_for_mcp in one behaviour, and distinct
\* keys put into the cache by the cache harness
MaxCalls == 2
MaxKeys == 102

quality_levels(quality) == <<quality, 55, 40>>
downscale_targets(max_dim) == <<max_dim, 384, 256>>

Larger(a, b) == IF a > b THEN a ELSE b

\* int(side * scale) with scale = target / m in floating point: the exact
\* quotient rounded down, except that a quotient that is a whole number k may
\* come out of the float product just below k and be truncated to k - 1
\* (int(392 * (256 / 392)) is 255)
FloatInt(side, target, m) ==
    LET k == (side * target) \div m
    IN  IF (side * target) % m = 0 THEN {k - 1, k} ELSE {k}

\* a resize without the test "max(w, h) > downscale_target"
ResizedAlways(size, target) ==
    LET m == Larger(size[1], size[2])
    IN  {<<(size[1] * target) \div m, (size[2] * target) \div m>>}

\* the resize of one ladder step: only when max(w, h) exceeds the target;
\* scale = min(1.0, target / max(w, h)), each side max(1, int(side * scale))
Resized(size, target) ==
    LET w == size[1]
        h == size[2]
        m == Larger(w, h)
    IN  IF m > target
        THEN {<<Larger(1, nw), Larger(1, nh)>> :
                 nw \in FloatInt(w, target, m), nh \in FloatInt(h, target, m)}
        ELSE {size}

\* the budget test: base64 characters plus the data URI prefix
WithinBudget(bytes_len, max_b64_chars) ==
    B64Len(bytes_len) + PrefixLen <= max_b64_chars

\* the call in progress: its arguments, its place in the ladder (ti-th
\* target, qi-th quality), the number of encodes made, and how it ended
\* the ValueError of the last-resort pass: its message gives b64_chars and
\* max_b64_chars
BudgetError(b64_chars, max_b64_chars) ==
    [raised |-> TRUE, b64_chars |-> b64_chars, max_b64_chars |-> max_b64_chars]
NoBudgetError == [raised |-> FALSE, b64_chars |-> 0, max_b64_chars |-> 0]

\* tried is the size of the image of the last encode, error the exception
\* the call raised
EncState(pcE, key, max_dim, budget, src, ti, qi, encodes, result, fromCache) ==
    [pc |-> pcE, cache_key |-> key, max_dim |-> max_dim, max_b64_chars |-> budget,
     src |-> src, ti |-> ti, qi |-> qi, encodes |-> encodes, result |-> result,
     fromCache |-> fromCache, tried |-> <<0, 0>>, error |-> NoBudgetError,
     pairs |-> <<>>]
EncIdle == EncState("idle", NoCacheKey, 0, 0, <<0, 0>>, 0, 0, 0, NoImage, FALSE)

\* inputs: the assets and their source sizes, the max_dim and max_b64_chars
\* arguments, the sizes in bytes the WebP encoder may produce
AssetIds == {1, 2, 3, 4}
SourceSize(asset_id) ==
    CASE asset_id = 1 -> <<100, 100>>
      [] asset_id = 2 -> <<4000, 3000>>
      [] asset_id = 3 -> <<392, 392>>
      [] OTHER -> <<1, 2000>>
\* the assets whose previews the callers cache (calls with a cache_key)
KeyedAssets == {1}
MaxDims == {200, 256, 512}
Budgets == {1, 70, 150}
EncodedSizes == {30, 90}
StartQuality == 70

\* the cache lookup at the head of encode_preview_for_mcp: a hit is returned
\* as it is
CacheHit(c, key) == key.present /\ CacheIndex(c, key) # {}

\* the end of a successful call: build the EncodedImage, store it under
\* cache_key when there is one, return it
Finished(e, bytes_len, size_px) ==
    [e EXCEPT !.pc = "returned", !.result = EncodedImage(bytes_len, size_px),
              !.encodes = e.encodes + 1, !.tried = size_px]

StoreResult(c, e, bytes_len, size_px) ==
    IF e.cache_key.present
    THEN _cache_preview(c, e.cache_key, EncodedImage(bytes_len, size_px))
    ELSE c

\* overlapping tool calls that reach _cache_preview
Threads == {1, 2}

\* a thread outside _cache_preview; used is the size of the dict when the
\* thread's iterator was created
ThreadIdle == [pc |-> "idle", key |-> NoCacheKey, oldest |-> NoCacheKey, used |-> 0,
               error |-> ""]

IdleCache ==
    /\ cache = <<>>
    /\ enc = EncIdle
    /\ calls = 0
    /\ order = <<>>
    /\ threads = [t \in Threads |-> ThreadIdle]

\* a call of encode_preview_for_mcp, up to the cache lookup and the load of
\* the image
EncodeCall ==
    /\ enc.pc \in {"idle", "returned", "raised"}
    /\ calls < MaxCalls
    /\ \E a \in AssetIds, d \in MaxDims, b \in Budgets :
       \E useKey \in (IF a \in KeyedAssets THEN BOOLEAN ELSE {FALSE}) :
          LET key == IF useKey THEN CacheKey(a, d, StartQuality) ELSE NoCacheKey IN
          enc' = IF CacheHit(cache, key)
                 THEN EncState("returned", key, d, b, SourceSize(a), 0, 0, 0,
                               _get_cached_preview(cache, key), TRUE)
                 ELSE EncState("ladder", key, d, b, SourceSize(a), 1, 1, 0,
                               NoImage, FALSE)
    /\ calls' = calls + 1
    /\ UNCHANGED <<cache, order, threads>>
    /\ UNCHANGED <<pollVars, extractVars, publishVars, registryVars>>

\* a pair of the ladder that was tried: the downscale target, the quality,
\* and whether the encoding was within budget
Pair(target, quality, fits) == [target |-> target, quality |-> quality, fits |-> fits]

\* a ladder with the qualities outside and the targets inside
LadderQualityOuter(ti, qi, nt, nq) ==
    IF ti < nt THEN [ti |-> ti + 1, qi |-> qi, pc |-> "ladder"]
    ELSE IF qi < nq THEN [ti |-> 1, qi |-> qi + 1, pc |-> "ladder"]
    ELSE [ti |-> ti + 1, qi |-> 1, pc |-> "last"]

\* a ladder that starts over when its last pair has failed
LadderWraps(ti, qi, nt, nq) ==
    IF qi < nq THEN [ti |-> ti, qi |-> qi + 1, pc |-> "ladder"]
    ELSE IF ti < nt THEN [ti |-> ti + 1, qi |-> 1, pc |-> "ladder"]
    ELSE [ti |-> 1, qi |-> 1, pc |-> "ladder"]

\* where the two nested for loops go after a pair that does not fit: the next
\* quality of the same target, else the first quality of the next target,
\* else out of the loops to the last-resort pass
LadderNext(ti, qi, nt, nq) ==
    IF qi < nq THEN [ti |-> ti, qi |-> qi + 1, pc |-> "ladder"]
    ELSE IF ti < nt THEN [ti |-> ti + 1, qi |-> 1, pc |-> "ladder"]
    ELSE [ti |-> ti + 1, qi |-> 1, pc |-> "last"]

\* one encode of the ladder: resize to the ti-th target, encode at the qi-th
\* quality; the first result within budget ends the call
EncodeStep ==
    /\ enc.pc = "ladder"
    /\ \E bytes_len \in EncodedSizes,
          size_px \in Resized(enc.src, downscale_targets(enc.max_dim)[enc.ti]) :
          LET nq == Len(quality_levels(StartQuality))
              nt == Len(downscale_targets(enc.max_dim))
          IN
          IF WithinBudget(bytes_len, enc.max_b64_chars)
          THEN /\ enc' = [Finished(enc, bytes_len, size_px) EXCEPT
                            !.pairs = Append(enc.pairs,
                                Pair(downscale_targets(enc.max_dim)[enc.ti],
                                     quality_levels(StartQuality)[enc.qi], TRUE))]
               /\ cache' = StoreResult(cache, enc, bytes_len, size_px)
          ELSE /\ enc' = [enc EXCEPT
                            !.pairs = Append(enc.pairs,
                                Pair(downscale_targets(enc.max_dim)[enc.ti],
                                     quality_levels(StartQuality)[enc.qi], FALSE)),
                            !.encodes = enc.encodes + 1,
                            !.tried = size_px,
                            !.qi = LadderNext(enc.ti, enc.qi, nt, nq).qi,
                            !.ti = LadderNext(enc.ti, enc.qi, nt, nq).ti,
                            !.pc = LadderNext(enc.ti, enc.qi, nt, nq).pc]
               /\ cache' = cache
    /\ UNCHANGED <<calls, order, threads>>
    /\ UNCHANGED <<pollVars, extractVars, publishVars, registryVars>>

\* the last-resort encode at smallest_dim (quality 35); over budget, ValueError
EncodeLastResort ==
    /\ enc.pc = "last"
    /\ \E bytes_len \in EncodedSizes, size_px \in Resized(enc.src, SmallestDim) :
          IF WithinBudget(bytes_len, enc.max_b64_chars)
          THEN /\ enc' = Finished(enc, bytes_len, size_px)
               /\ cache' = StoreResult(cache, enc, bytes_len, size_px)
          ELSE /\ enc' = [enc EXCEPT !.pc = "raised", !.encodes = enc.encodes + 1,
                                     !.tried = size_px,
                                     !.error = BudgetError(B64Len(bytes_len),
                                                           enc.max_b64_chars)]
               /\ cache' = cache
    /\ UNCHANGED <<calls, order, threads>>
    /\ UNCHANGED <<pollVars, extractVars, publishVars, registryVars>>

----------------------------------------------------------------------------
(* Harness putting keys into the preview cache *)

\* the harness puts keys already cached only until a fresh key has caused
\* the first eviction; afterwards it puts fresh keys only
ReputAllowed == calls <= CacheLimit + 1

\* the keys of a put: the next unused asset id and, while ReputAllowed, the
\* oldest key of the cache and its newest key
PutKeys ==
    (IF calls < MaxKeys THEN {CacheKey(calls + 1, 512, StartQuality)} ELSE {})
    \cup (IF Len(cache) > 0 /\ ReputAllowed
          THEN {cache[1].key, cache[Len(cache)].key} ELSE {})

\* the keys of a read: the next unused asset id (a miss), the oldest key of
\* the cache and its newest key (hits)
GetKeys ==
    {CacheKey(calls + 1, 512, StartQuality)}
    \cup (IF Len(cache) > 0 THEN {cache[1].key, cache[Len(cache)].key} ELSE {})

\* the keys of the harness stand by their asset id
KeysOf(c) == {c[i].key.asset_id : i \in 1..Len(c)}

\* the key was in the cache, not as its newest entry, and is its newest entry
\* now: it has been removed and inserted again
Reinserted(key) ==
    /\ Len(cache) > 0 /\ Len(cache') > 0
    /\ cache'[Len(cache')].key.asset_id = key
    /\ cache[Len(cache)].key.asset_id # key
    /\ key \in KeysOf(cache)

\* the keys whose entry this step removed from the cache
Evicted ==
    LET before == KeysOf(cache)
        after == KeysOf(cache')
    IN  (before \ after) \cup {k \in before : Reinserted(k)}

\* the keys in the order their present entries were inserted, after a put of
\* key: evicted entries leave, a new entry comes last
OrderAfterPut(key, gone, wasThere) ==
    LET kept == SelectSeq(order, LAMBDA k : k \notin gone)
    IN  IF wasThere /\ key \notin gone THEN kept
        ELSE Append(kept, key)

\* a read that moves the entry it hits to the end of the dict (LRU by access)
MoveToEnd(c, key) ==
    IF CacheIndex(c, key) = {} THEN c
    ELSE Append(SelectSeq(c, LAMBDA e : e.key # key), [key |-> key, val |-> _get_cached_preview(c, key)])

\* the _preview_cache after _get_cached_preview: dict.get changes nothing
AfterGet(c, key) == c

\* _cache_preview(cache_key, encoded)
CachePut ==
    /\ \E key \in PutKeys :
          /\ cache' = _cache_preview(cache, key, EncodedImage(30, <<100, 100>>))
          /\ calls' = IF key.asset_id = calls + 1 THEN calls + 1 ELSE calls
          /\ \E gone \in {Evicted}, wasThere \in {key.asset_id \in KeysOf(cache)} :
                order' = OrderAfterPut(key.asset_id, gone, wasThere)
    /\ UNCHANGED <<enc, threads>>
    /\ UNCHANGED <<pollVars, extractVars, publishVars, registryVars>>

\* _get_cached_preview(cache_key) on a key of the cache (a hit) or on the next
\* unused key (a miss)
CacheGet ==
    /\ \E key \in GetKeys :
          cache' = AfterGet(cache, key)
    /\ UNCHANGED <<enc, calls, order, threads>>
    /\ UNCHANGED <<pollVars, extractVars, publishVars, registryVars>>

----------------------------------------------------------------------------
(* Overlapping calls of _cache_preview: one action per statement step *)

\* the second thread enters once the dict holds CacheLimit entries: before
\* that no call evicts and the calls do not meet
MayEnter(t) == t = 1 \/ Len(cache) >= CacheLimit

\* keys of the overlapping calls: the next unused key, or the newest key
\* again
RaceKeys ==
    (IF calls < MaxKeys THEN {CacheKey(calls + 1, 512, StartQuality)} ELSE {})
        \cup (IF Len(cache) >= CacheLimit THEN {cache[Len(cache)].key} ELSE {})

\* _cache_preview(cache_key, encoded) is called
RaceCall ==
    /\ \E t \in Threads :
          /\ threads[t].pc = "idle"
          /\ MayEnter(t)
          /\ \E key \in RaceKeys :
                /\ threads' = [threads EXCEPT ![t] = [ThreadIdle EXCEPT !.pc = "test",
                                                                        !.key = key]]
                /\ calls' = IF key.asset_id = calls + 1 THEN calls + 1 ELSE calls
    /\ UNCHANGED <<cache, enc, order>>
    /\ UNCHANGED <<pollVars, extractVars, publishVars, registryVars>>

\* if len(_preview_cache) > 100:
RaceTest ==
    /\ \E t \in Threads :
          /\ threads[t].pc = "test"
          /\ threads' = [threads EXCEPT ![t].pc =
                            IF CacheIsFull(cache) THEN "iter" ELSE "insert"]
    /\ UNCHANGED <<cache, enc, calls, order>>
    /\ UNCHANGED <<pollVars, extractVars, publishVars, registryVars>>

\* iter(_preview_cache): the iterator remembers the size of the dict
RaceIter ==
    /\ \E t \in Threads :
          /\ threads[t].pc = "iter"
          /\ threads' = [threads EXCEPT ![t].pc = "next", ![t].used = Len(cache)]
    /\ UNCHANGED <<cache, enc, calls, order>>
    /\ UNCHANGED <<pollVars, extractVars, publishVars, registryVars>>

\* next(...): RuntimeError when the dict changed size since iter(), else the
\* first key
RaceNext ==
    /\ \E t \in Threads :
          /\ threads[t].pc = "next"
          /\ threads' = [threads EXCEPT ![t] =
                IF Len(cache) # threads[t].used
                THEN [@ EXCEPT !.pc = "raised", !.error = "RuntimeError"]
                ELSE [@ EXCEPT !.pc = "pop", !.oldest = cache[1].key]]
    /\ UNCHANGED <<cache, enc, calls, order>>
    /\ UNCHANGED <<pollVars, extractVars, publishVars, registryVars>>

\* _preview_cache.pop(key): KeyError when the key is no longer there
RacePop ==
    /\ \E t \in Threads :
          /\ threads[t].pc = "pop"
          /\ IF CacheIndex(cache, threads[t].oldest) = {}
             THEN /\ threads' = [threads EXCEPT ![t].pc = "raised",
                                                ![t].error = "KeyError"]
                  /\ cache' = cache
             ELSE /\ threads' = [threads EXCEPT ![t].pc = "insert"]
                  /\ cache' = SelectSeq(cache, LAMBDA e : e.key # threads[t].oldest)
    /\ UNCHANGED <<enc, calls, order>>
    /\ UNCHANGED <<pollVars, extractVars, publishVars, registryVars>>

\* _preview_cache[cache_key] = encoded, and the return
RaceInsert ==
    /\ \E t \in Threads :
          /\ threads[t].pc = "insert"
          /\ cache' = DictSet(cache, threads[t].key, EncodedImage(30, <<100, 100>>))
          /\ threads' = [threads EXCEPT ![t] = ThreadIdle]
    /\ UNCHANGED <<enc, calls, order>>
    /\ UNCHANGED <<pollVars, extractVars, publishVars, registryVars>>

----------------------------------------------------------------------------
(* managers/publish_manager.py: copy_asset and _compress_image *)

\* bound: calls of copy_asset in one behaviour
MaxCopies == 2

\* a file by what it holds and its size in bytes
FileOf(content, size) == [exists |-> TRUE, content |-> content, size |-> size]
NoFile == [exists |-> FALSE, content |-> "", size |-> 0]

\* source files under the output root: name, suffix, size and dimensions
Source(name, ext, size, dims) == [name |-> name, ext |-> ext, size |-> size, dims |-> dims]
NoSource == Source("", "", 0, <<0, 0>>)
Sources ==
    {Source("test.png", ".png", 900, <<512, 512>>),
     Source("tiny.webp", ".webp", 50, <<1, 3>>),
     Source("notes.txt", ".txt", 900, <<0, 0>>)}

\* is_image: the suffix test of copy_asset
is_image(source) == source.ext \in {".png", ".jpg", ".jpeg", ".webp", ".gif"}

\* max_bytes arguments, and what one save may produce: a number of bytes,
\* or 0 when im_resized.save raises
MaxBytesValues == {60, 600}
SaveRaises == 0
SaveOutcomes == {SaveRaises, 55, 80, 700}

publish_quality_levels == <<85, 75, 65, 55, 45, 35>>
\* downscale_factors, in hundredths
downscale_factors == <<100, 90, 75, 60, 50>>

\* new_size: max(1, int(side * downscale_factor)) for both sides, the
\* original size for the factor 1.0
NewSizes(dims, factor) ==
    IF factor = 100 THEN {dims}
    ELSE {<<Larger(1, w), Larger(1, h)>> :
             w \in FloatInt(dims[1], factor, 100), h \in FloatInt(dims[2], factor, 100)}

CompressionInfo(compressed, quality, downscaled, final_dimensions) ==
    [compressed |-> compressed, quality |-> quality, downscaled |-> downscaled,
     final_dimensions |-> final_dimensions]
NotCompressed == CompressionInfo(FALSE, 0, FALSE, <<0, 0>>)

CopyResult(kind, bytes_size, info, error) ==
    [kind |-> kind, bytes_size |-> bytes_size, compression_info |-> info, error |-> error]
NoCopyResult == CopyResult("none", 0, NotCompressed, "")

\* a copy_asset call: its arguments, its place in the ladder of
\* _compress_image, the files as they were at the call, whether the temp_path
\* file was written, and what it returned or raised
CopyIdle ==
    [pc |-> "idle", source |-> NoSource, overwrite |-> TRUE, web_optimize |-> FALSE,
     max_bytes |-> 0, fi |-> 1, qi |-> 1, saves |-> 0, wroteTemp |-> FALSE,
     targetBefore |-> NoFile, logBefore |-> 0, result |-> NoCopyResult]

\* manifest.json: absent, or a JSON object key -> filename
ManifestOf(entries) == [exists |-> TRUE, entries |-> entries]
NoManifest == [exists |-> FALSE, entries |-> <<>>]

\* a thread outside update_manifest: its arguments, the dict it read, the
\* number of its calls, whether the read of an existing manifest worked in
\* this call (readOk) and in all its calls (clean)
UpdaterIdle ==
    [pc |-> "idle", key |-> "", filename |-> "", local |-> <<>>, n |-> 0,
     readOk |-> TRUE, clean |-> TRUE]

IdlePublish ==
    /\ pil = TRUE
    /\ target_path = NoFile
    /\ temp_path = NoFile
    /\ publish_log = <<>>
    /\ copy = CopyIdle
    /\ copies = 0
    /\ manifest = NoManifest
    /\ updaters = [t \in Threads |-> UpdaterIdle]

\* the publish directory at the start: Pillow importable or not, the target
\* there already or not
InitPublish ==
    /\ pil \in BOOLEAN
    /\ target_path \in {NoFile, FileOf("existing", 8)}
    /\ temp_path = NoFile
    /\ publish_log = <<>>
    /\ copy = CopyIdle
    /\ copies = 0
    /\ manifest = NoManifest
    /\ updaters = [t \in Threads |-> UpdaterIdle]

\* the raise of copy_asset: the except clause unlinks the temp_path file
CopyRaises(c, error) ==
    /\ copy' = [c EXCEPT !.pc = "raised", !.result = CopyResult(error, 0, NotCompressed, error)]
    /\ temp_path' = NoFile
    /\ UNCHANGED <<target_path, publish_log>>

\* the bytes are written to the temp_path file, the temp_path file replaces the
\* target, the publish is logged (a log that cannot be written is only
\* warned about) and the result is returned; a write that fails raises
\* OSError
CopyWrites(c, content, size, info) ==
    \E written \in BOOLEAN, logged \in BOOLEAN :
       IF ~written THEN CopyRaises([c EXCEPT !.wroteTemp = TRUE], "OSError")
       ELSE /\ target_path' = FileOf(content, size)
            /\ temp_path' = NoFile
            /\ publish_log' = IF logged
                              THEN Append(publish_log, [source |-> c.source.name,
                                                        bytes_size |-> size])
                              ELSE publish_log
            /\ copy' = [c EXCEPT !.pc = "returned", !.wroteTemp = TRUE,
                                 !.result = CopyResult("ok", size, info, "")]

\* an overwrite test that is never met
NeverRefuses(overwrite) == FALSE

\* the overwrite test of copy_asset
RefusesOverwrite(overwrite) == target_path.exists /\ ~overwrite

\* copy_asset up to the ladder of _compress_image: the overwrite test, the
\* plain copy, and the source that is returned as it is
CopyCall ==
    /\ copy.pc \in {"idle", "returned", "raised"}
    /\ copies < MaxCopies
    /\ copies' = copies + 1
    /\ \E source \in Sources, overwrite \in BOOLEAN, web_optimize \in BOOLEAN,
          max_bytes \in MaxBytesValues :
          LET c == [CopyIdle EXCEPT !.source = source, !.overwrite = overwrite,
                                    !.web_optimize = web_optimize,
                                    !.max_bytes = max_bytes,
                                    !.targetBefore = target_path,
                                    !.logBefore = Len(publish_log)]
              needs_compression == is_image(source) /\ web_optimize
          IN  IF RefusesOverwrite(overwrite)
              THEN /\ copy' = [c EXCEPT !.pc = "raised",
                                        !.result = CopyResult("ValueError", 0, NotCompressed,
                                                              "overwrite=False")]
                   /\ UNCHANGED <<target_path, temp_path, publish_log>>
              ELSE IF needs_compression /\ pil
              THEN IF source.size <= max_bytes /\ source.ext = ".webp"
                   THEN CopyWrites(c, source.name, source.size, NotCompressed)
                   ELSE /\ copy' = [c EXCEPT !.pc = "ladder"]
                        /\ UNCHANGED <<target_path, temp_path, publish_log>>
              ELSE CopyWrites(c, source.name, source.size, NotCompressed)
    /\ UNCHANGED <<pil, manifest, updaters>>
    /\ UNCHANGED <<pollVars, extractVars, cacheVars, registryVars>>

\* the step after (fi, qi) in the loops of _compress_image: qualities inside,
\* factors outside
PublishLadderNext(fi, qi) ==
    IF qi < Len(publish_quality_levels) THEN [fi |-> fi, qi |-> qi + 1, pc |-> "ladder"]
    ELSE IF fi < Len(downscale_factors) THEN [fi |-> fi + 1, qi |-> 1, pc |-> "ladder"]
    ELSE [fi |-> fi, qi |-> qi, pc |-> "last_resort"]

\* the size test of _compress_image
FitsMaxBytes(n, max_bytes) == n <= max_bytes

\* one pass of the inner loop of _compress_image: resize, save, and return
\* when the bytes fit; an exception of the save is logged and the loop
\* goes on
CompressStep ==
    /\ copy.pc = "ladder"
    /\ \E out \in SaveOutcomes,
          new_size \in NewSizes(copy.source.dims, downscale_factors[copy.fi]) :
          IF out # SaveRaises /\ FitsMaxBytes(out, copy.max_bytes)
          THEN CopyWrites([copy EXCEPT !.saves = copy.saves + 1],
                          "webp of " \o copy.source.name, out,
                          CompressionInfo(TRUE, publish_quality_levels[copy.qi],
                                          downscale_factors[copy.fi] < 100, new_size))
          ELSE /\ copy' = [copy EXCEPT
                              !.saves = copy.saves + 1,
                              !.fi = PublishLadderNext(copy.fi, copy.qi).fi,
                              !.qi = PublishLadderNext(copy.fi, copy.qi).qi,
                              !.pc = PublishLadderNext(copy.fi, copy.qi).pc]
               /\ UNCHANGED <<target_path, temp_path, publish_log>>
    /\ UNCHANGED <<pil, copies, manifest, updaters>>
    /\ UNCHANGED <<pollVars, extractVars, cacheVars, registryVars>>

\* after the loops: one more save of the last im_resized at quality 35,
\* outside any try; ValueError when it is over max_bytes
CompressLastResort ==
    /\ copy.pc = "last_resort"
    /\ \E out \in SaveOutcomes,
          new_size \in NewSizes(copy.source.dims,
                                downscale_factors[Len(downscale_factors)]) :
          IF out = SaveRaises THEN CopyRaises(copy, "OSError")
          ELSE IF out > copy.max_bytes THEN CopyRaises(copy, "ValueError")
          ELSE CopyWrites(copy, "webp of " \o copy.source.name, out,
                          CompressionInfo(TRUE, 35, TRUE, new_size))
    /\ UNCHANGED <<pil, copies, manifest, updaters>>
    /\ UNCHANGED <<pollVars, extractVars, cacheVars, registryVars>>

----------------------------------------------------------------------------
(* managers/publish_manager.py: update_manifest *)


\* bound: calls of update_manifest by one thread
MaxUpdates == 2

\* the characters of the manifest keys of the model
KeyChars(key) ==
    CASE key = "hero" -> <<"h", "e", "r", "o">>
      [] key = "logo" -> <<"l", "o", "g", "o">>
      [] key = "Hero" -> <<"H", "e", "r", "o">>
      [] OTHER -> <<>>
LowerOrDigit == {"e", "g", "h", "l", "o", "r"}

\* validate_manifest_key: ^[a-z0-9][a-z0-9._-]{0,63}$
validate_manifest_key(key) ==
    LET cs == KeyChars(key) IN
    /\ Len(cs) >= 1
    /\ Len(cs) <= 64
    /\ cs[1] \in LowerOrDigit
    /\ \A i \in 2..Len(cs) : cs[i] \in LowerOrDigit \cup {".", "_", "-"}

ManifestKeys == {"hero", "logo", "Hero"}
ManifestFilenames == {"a.webp", "b.png"}

\* manifest[manifest_key] = filename on the dict that was read
DictUpdate(entries, key, filename) ==
    [k \in (DOMAIN entries) \cup {key} |-> IF k = key THEN filename ELSE entries[k]]

\* the lock is not taken at all
NoLock(t) == TRUE

\* self._manifest_lock can be taken: no other thread is inside the with block
LockFree(t) == \A u \in Threads \ {t} : updaters[u].pc \notin {"read", "write"}

\* update_manifest is called: an invalid key raises ValueError, a valid one
\* comes to wait for the lock
UpdateCall ==
    /\ \E t \in Threads :
          /\ updaters[t].pc \in {"idle", "returned", "raised"}
          /\ updaters[t].n < MaxUpdates
          /\ \E key \in ManifestKeys, filename \in ManifestFilenames :
                updaters' = [updaters EXCEPT ![t] =
                    [@ EXCEPT !.pc = IF validate_manifest_key(key) THEN "wait" ELSE "raised",
                              !.key = key, !.filename = filename, !.local = <<>>,
                              !.n = @ + 1, !.readOk = TRUE]]
    /\ UNCHANGED <<pil, target_path, temp_path, publish_log, copy, copies, manifest>>
    /\ UNCHANGED <<pollVars, extractVars, cacheVars, registryVars>>

\* with self._manifest_lock:
UpdateAcquire ==
    /\ \E t \in Threads :
          /\ updaters[t].pc = "wait"
          /\ LockFree(t)
          /\ updaters' = [updaters EXCEPT ![t].pc = "read"]
    /\ UNCHANGED <<pil, target_path, temp_path, publish_log, copy, copies, manifest>>
    /\ UNCHANGED <<pollVars, extractVars, cacheVars, registryVars>>

\* the manifest is read: {} when the file is absent, and {} with a warning
\* when open or json.load fails (OSError, JSONDecodeError)
UpdateRead ==
    /\ \E t \in Threads :
          /\ updaters[t].pc = "read"
          /\ \E readable \in (IF manifest.exists THEN BOOLEAN ELSE {TRUE}) :
                updaters' = [updaters EXCEPT ![t] =
                    [@ EXCEPT !.pc = "write",
                              !.local = IF readable THEN manifest.entries ELSE <<>>,
                              !.readOk = readable,
                              !.clean = @ /\ readable]]
    /\ UNCHANGED <<pil, target_path, temp_path, publish_log, copy, copies, manifest>>
    /\ UNCHANGED <<pollVars, extractVars, cacheVars, registryVars>>

\* the entry is set and the dict is written to the temp file, which
\* replaces manifest.json; a write that fails raises and leaves the
\* manifest as it was; the lock is released either way
UpdateWrite ==
    /\ \E t \in Threads :
          /\ updaters[t].pc = "write"
          /\ \E written \in BOOLEAN :
                IF written
                THEN /\ manifest' = ManifestOf(DictUpdate(updaters[t].local, updaters[t].key,
                                                          updaters[t].filename))
                     /\ updaters' = [updaters EXCEPT ![t].pc = "returned"]
                ELSE /\ manifest' = manifest
                     /\ updaters' = [updaters EXCEPT ![t].pc = "raised"]
    /\ UNCHANGED <<pil, target_path, temp_path, publish_log, copy, copies>>
    /\ UNCHANGED <<pollVars, extractVars, cacheVars, registryVars>>

\* the publish directory at the start: no manifest, or one with an entry
InitManifest ==
    /\ pil = TRUE
    /\ target_path = NoFile
    /\ temp_path = NoFile
    /\ publish_log = <<>>
    /\ copy = CopyIdle
    /\ copies = 0
    /\ manifest \in {NoManifest, ManifestOf("site" :> "site.png")}
    /\ updaters = [t \in Threads |-> UpdaterIdle]

----------------------------------------------------------------------------
(* managers/asset_registry.py: AssetRegistry *)

\* bounds: assets registered and hours that pass in one behaviour
MaxAssets == 3
MaxNow == 3

\* the ttl_hours of the registry of the model
ttl_hours == 1

AssetUrls == {"u1", "u2"}

\* an AssetRecord by the fields the registry reads
AssetRecord(asset_id, asset_url, expires_at) ==
    [asset_id |-> asset_id, asset_url |-> asset_url, expires_at |-> expires_at]
NoRecord == AssetRecord(0, "", 0)

\* the last call: its name and argument, _assets as it was before the call,
\* the time of the call and the record returned (NoRecord for None)
Lookup(op, asset_id, asset_url, before, at, result) ==
    [op |-> op, asset_id |-> asset_id, asset_url |-> asset_url, before |-> before,
     at |-> at, result |-> result]
NoLookup == Lookup("none", 0, "", <<>>, 0, NoRecord)

IdleRegistry ==
    /\ _assets = <<>>
    /\ _url_to_asset_id = <<>>
    /\ now = 0
    /\ issued = 0
    /\ lookup = NoLookup

\* a dict without one key
Without(dict, key) == [k \in (DOMAIN dict) \ {key} |-> dict[k]]

\* an expiry test that never finds a record expired
NeverExpired(record, t) == FALSE

\* "record.expires_at and datetime.now() > record.expires_at"
IsExpired(record, t) == t > record.expires_at

\* the removal of an expired record: del self._assets[asset_id], and the
\* entry of its URL leaves the index when the URL is in the index
RemoveExpired(reg, asset_id) ==
    LET record == reg.assets[asset_id] IN
    [assets |-> Without(reg.assets, asset_id),
     index |-> IF record.asset_url \in DOMAIN reg.index
               THEN Without(reg.index, record.asset_url) ELSE reg.index,
     result |-> NoRecord]

\* AssetRegistry.get_asset on the registry reg = [assets, index]
get_asset(reg, asset_id, t) ==
    IF asset_id \notin DOMAIN reg.assets
    THEN [assets |-> reg.assets, index |-> reg.index, result |-> NoRecord]
    ELSE IF IsExpired(reg.assets[asset_id], t)
    THEN RemoveExpired(reg, asset_id)
    ELSE [assets |-> reg.assets, index |-> reg.index, result |-> reg.assets[asset_id]]

\* AssetRegistry.get_asset_by_url
get_asset_by_url(reg, asset_url, t) ==
    IF asset_url \in DOMAIN reg.index
    THEN get_asset(reg, reg.index[asset_url], t)
    ELSE [assets |-> reg.assets, index |-> reg.index, result |-> NoRecord]

\* AssetRegistry.cleanup_expired: the expired ids are listed first and then
\* removed one by one
RECURSIVE RemoveAll(_, _)
RemoveAll(reg, ids) ==
    IF ids = {} THEN reg
    ELSE LET asset_id == CHOOSE i \in ids : TRUE
         IN  RemoveAll(RemoveExpired(reg, asset_id), ids \ {asset_id})
cleanup_expired(reg, t) ==
    RemoveAll(reg, {i \in DOMAIN reg.assets : IsExpired(reg.assets[i], t)})

Registry == [assets |-> _assets, index |-> _url_to_asset_id]

\* AssetRegistry.register_asset: a fresh id, expiry ttl_hours from now, the
\* record stored and the URL index set to the new id
RegisterAsset ==
    /\ issued < MaxAssets
    /\ \E asset_url \in AssetUrls :
          LET asset_id == issued + 1
              record == AssetRecord(asset_id, asset_url, now + ttl_hours)
          IN  /\ _assets' = (asset_id :> record) @@ _assets
              /\ _url_to_asset_id' = (asset_url :> asset_id) @@ Without(_url_to_asset_id, asset_url)
              /\ lookup' = Lookup("register_asset", asset_id, asset_url, _assets, now, record)
    /\ issued' = issued + 1
    /\ UNCHANGED now
    /\ UNCHANGED <<pollVars, extractVars, cacheVars, publishVars>>

GetAsset ==
    /\ \E asset_id \in 1..MaxAssets :
          LET after == get_asset(Registry, asset_id, now) IN
          /\ _assets' = after.assets
          /\ _url_to_asset_id' = after.index
          /\ lookup' = Lookup("get_asset", asset_id, "", _assets, now, after.result)
    /\ UNCHANGED <<now, issued>>
    /\ UNCHANGED <<pollVars, extractVars, cacheVars, publishVars>>

GetAssetByUrl ==
    /\ \E asset_url \in AssetUrls :
          LET after == get_asset_by_url(Registry, asset_url, now) IN
          /\ _assets' = after.assets
          /\ _url_to_asset_id' = after.index
          /\ lookup' = Lookup("get_asset_by_url", 0, asset_url, _assets, now, after.result)
    /\ UNCHANGED <<now, issued>>
    /\ UNCHANGED <<pollVars, extractVars, cacheVars, publishVars>>

CleanupExpired ==
    /\ LET after == cleanup_expired(Registry, now) IN
          /\ _assets' = after.assets
          /\ _url_to_asset_id' = after.index
          /\ lookup' = Lookup("cleanup_expired", 0, "", _assets, now, NoRecord)
    /\ UNCHANGED <<now, issued>>
    /\ UNCHANGED <<pollVars, extractVars, cacheVars, publishVars>>

\* an hour passes
Tick ==
    /\ now < MaxNow
    /\ now' = now + 1
    /\ UNCHANGED <<_assets, _url_to_asset_id, issued, lookup>>
    /\ UNCHANGED <<pollVars, extractVars, cacheVars, publishVars>>

----------------------------------------------------------------------------
(* Specifications *)

Init == InitPoll /\ IdleExtract /\ IdleCache /\ IdlePublish /\ IdleRegistry
Next == Submit \/ PollAttempt \/ Deliver
Spec == Init /\ [][Next]_vars

InitX == InitPoll /\ InitExtract /\ IdleCache /\ IdlePublish /\ IdleRegistry
NextX == Extract
SpecExtract == InitX /\ [][NextX]_vars

InitE == InitPoll /\ IdleExtract /\ IdleCache /\ IdlePublish /\ IdleRegistry
NextE == EncodeCall \/ EncodeStep \/ EncodeLastResort
SpecEncode == InitE /\ [][NextE]_vars

\* a call that has started runs on: the steps of encode_preview_for_mcp are
\* straight-line code of one thread
SpecEncodeFair == SpecEncode /\ WF_vars(EncodeStep) /\ WF_vars(EncodeLastResort)

InitC == InitPoll /\ IdleExtract /\ IdleCache /\ IdlePublish /\ IdleRegistry
NextC == CachePut \/ CacheGet
SpecCache == InitC /\ [][NextC]_vars

InitS == InitPoll /\ IdleExtract /\ IdleCache /\ IdlePublish /\ IdleRegistry
NextS == ResolveSource
SpecResolve == InitS /\ [][NextS]_vars

InitP == InitPoll /\ IdleExtract /\ IdleCache /\ InitPublish /\ IdleRegistry
NextP == CopyCall \/ CompressStep \/ CompressLastResort
SpecPublish == InitP /\ [][NextP]_vars

InitM == InitPoll /\ IdleExtract /\ IdleCache /\ InitManifest /\ IdleRegistry
NextM == UpdateCall \/ UpdateAcquire \/ UpdateRead \/ UpdateWrite
SpecManifest == InitM /\ [][NextM]_vars

InitA == InitPoll /\ IdleExtract /\ IdleCache /\ IdlePublish /\ IdleRegistry
NextA == RegisterAsset \/ GetAsset \/ GetAssetByUrl \/ CleanupExpired \/ Tick
SpecRegistry == InitA /\ [][NextA]_vars

InitR == InitPoll /\ IdleExtract /\ IdleCache /\ IdlePublish /\ IdleRegistry
NextR == RaceCall \/ RaceTest \/ RaceIter \/ RaceNext \/ RacePop \/ RaceInsert
SpecRace == InitR /\ [][NextR]_vars

----------------------------------------------------------------------------
(* Claims about the poll and the delivery of its outcome (Spec) *)

\* the poll has been made and is over
PollOver == pc \in {"polled", "done"} /\ attempt > 0

C3_RunningHandleDelivered ==
    (pc = "done" /\ pollOutcome.kind = "StillRunning") =>
        /\ toolResult.kind = "running"
        /\ toolResult.prompt_id = prompt_id
        /\ registered = <<>>

\* C5: a job entry with an explicit failure flag ends the poll on that
\* attempt with an exception, also when it holds a non-empty outputs
\* mapping; it is never classified Completed or retried.  (An unexpected
\* TypeError is counted as ending the poll, too.)
C5_FailureFlagEndsPoll ==
    (attempt > 0 /\ lastResp.kind = "entry" /\ FailureFlag(lastResp.entry)) =>
        pollOutcome.kind \in {"Failed", "Crashed"}

\* C6: every Completed outcome carries a non-empty mapping, whether from the
\* job-specific history or from the full history; and an entry with a
\* non-empty outputs mapping and no failure flag yields Completed with
\* exactly that mapping.
C6_CompletedHasMapping ==
    /\ pollOutcome.kind = "Completed" =>
           (pollOutcome.outputs.shape = "map" /\ Len(pollOutcome.outputs.nodes) > 0)
    /\ (attempt > 0 /\ lastResp.kind = "entry" /\ ~FailureFlag(lastResp.entry)
          /\ lastResp.entry.outputs.shape = "map") =>
           (pollOutcome.kind = "Completed"
              /\ pollOutcome.outputs = lastResp.entry.outputs)

\* C7: when the job entry reports execution_success with no outputs (key
\* absent or empty mapping) and the full history holds a non-empty outputs
\* mapping for the job, the poll fetches the full history and returns
\* Completed with the outputs found there.
C7_RecoveredFromFullHistory ==
    (attempt > 0 /\ SuccessWithoutOutputs(lastResp)
       /\ lastFull.kind = "entry" /\ lastFull.outputs.shape = "map") =>
        /\ fetchedFull
        /\ pollOutcome.kind = "Completed"
        /\ pollOutcome.outputs = lastFull.outputs

\* C8: an attempt that meets a transient condition (transport error,
\* non-success status, unparsable or non-mapping history, non-mapping job
\* entry) uses up exactly that attempt and raises nothing: the poll goes on,
\* or returns the still-running sentinel if it was the last attempt; and an
\* attempt that, after transient ones, sees a non-empty outputs mapping
\* (with no failure flag) yields Completed with it.
C8_TransientRetried ==
    [][ /\ (attempt' # attempt /\ lastResp'.kind \in TransientKinds) =>
              /\ attempt' = attempt + 1
              /\ pollOutcome'.kind =
                    IF attempt' = max_attempts THEN "StillRunning" ELSE "none"
              /\ pc' = IF attempt' = max_attempts THEN "polled" ELSE "polling"
        /\ (attempt' # attempt /\ transients > 0 /\ lastResp'.kind = "entry"
              /\ ~FailureFlag(lastResp'.entry)
              /\ lastResp'.entry.outputs.shape = "map") =>
              /\ pollOutcome'.kind = "Completed"
              /\ pollOutcome'.outputs = lastResp'.entry.outputs
      ]_vars

\* a poll that met transient conditions on two attempts and then completed
C8_Witness ==
    /\ transients >= 2
    /\ attempt = 3
    /\ pollOutcome.kind = "Completed"
    /\ lastResp.entry.outputs.shape = "map"

----------------------------------------------------------------------------
(* Claims about _extract_first_asset_info (SpecExtract) *)

XNodes == xOutputs.nodes

\* node i holds, under the j-th preferred key, a list whose first element is
\* a dict with a non-empty filename
MatchAt(i, j) ==
    /\ XNodes[i].isDict
    /\ FirstElementMatches(XNodes[i].out[xKeys[j]])

\* node i holds, under the j-th preferred key, a list with a well-formed
\* asset dict at some position
HoldsAssetAt(i, j) ==
    /\ XNodes[i].isDict
    /\ XNodes[i].out[xKeys[j]].shape = "list"
    /\ \E n \in 1..Len(XNodes[i].out[xKeys[j]].items) :
          /\ XNodes[i].out[xKeys[j]].items[n].isDict
          /\ XNodes[i].out[xKeys[j]].items[n].filename # ""

ScannedBefore(i2, j2, i, j) == i2 < i \/ (i2 = i /\ j2 < j)

SwappedAB == MapOutputs(<<OutputsAB.nodes[2], OutputsAB.nodes[1]>>)

\* C9: the returned asset is the first element of the list at the first
\* match, nodes scanned in the mapping's order and, inside a node, keys in
\* the caller's order; node order dominates key priority: {"9": images
\* [a.png], "3": image [b.png]} gives a.png whatever the key order, and
\* b.png once the nodes are swapped.
C9_TieBreak ==
    /\ xResult.kind = "found" =>
          \E i \in 1..Len(XNodes), j \in 1..Len(xKeys) :
             /\ MatchAt(i, j)
             /\ \A i2 \in 1..Len(XNodes), j2 \in 1..Len(xKeys) :
                   ScannedBefore(i2, j2, i, j) => ~MatchAt(i2, j2)
             /\ xResult.filename = XNodes[i].out[xKeys[j]].items[1].filename
             /\ xResult.subfolder = XNodes[i].out[xKeys[j]].items[1].subfolder
    /\ (xResult.kind # "none" /\ xOutputs = OutputsAB /\ Len(xKeys) = 2) =>
          xResult.filename = "a.png"
    /\ (xResult.kind # "none" /\ xOutputs = SwappedAB /\ Len(xKeys) = 2) =>
          xResult.filename = "b.png"

\* the example of the claim with the key priority reversed: node "9" is
\* first and wins although its key comes second
C9_Witness ==
    /\ xOutputs = OutputsAB
    /\ xKeys = <<"image", "images">>
    /\ xResult.kind = "found"
    /\ xResult.filename = "a.png"

\* C10, as stated: extraction returns an asset whenever some node holds,
\* under some preferred key, a well-formed asset dict, and raises only when
\* none exists.
C10_FailsIffNoAssetAsStated ==
    xResult.kind # "none" =>
        (xResult.kind = "found" <=>
            \E i \in 1..Len(XNodes), j \in 1..Len(xKeys) : HoldsAssetAt(i, j))

\* C10, amended: extraction returns an asset if and only if some node holds,
\* under some preferred key, a list whose FIRST element is a well-formed
\* asset dict (later elements are never looked at); otherwise it raises the
\* no-matching-output error, whose message lists, node by node, the keys
\* present.
C10_FailsIffNoMatch ==
    xResult.kind # "none" =>
        /\ xResult.kind \in {"found", "no_match"}
        /\ xResult.kind = "found" <=>
              \E i \in 1..Len(XNodes), j \in 1..Len(xKeys) : MatchAt(i, j)
        /\ xResult.kind = "no_match" =>
              /\ Len(xResult.available) = Len(XNodes)
              /\ \A i \in 1..Len(XNodes) :
                    /\ xResult.available[i].id = XNodes[i].id
                    /\ \A k \in NodeKeys :
                          k \in xResult.available[i].keys <=>
                             (XNodes[i].isDict /\ XNodes[i].out[k].shape # "absent")

\* two nodes, the second holding a well-formed asset only behind a first
\* element that is no dict: the error is raised and lists the keys
C10_Witness ==
    /\ xResult.kind = "no_match"
    /\ Len(XNodes) = 2
    /\ XNodes[2].isDict
    /\ XNodes[2].out["images"] = ListVal(<<NotADict, ImgA>>)
    /\ "images" \in xResult.available[2].keys

----------------------------------------------------------------------------
(* Claims about the preview encoder and its cache (SpecEncode, SpecCache) *)

\* C1: whatever encode_preview_for_mcp returns, freshly encoded or from the
\* cache, satisfies b64_chars + len("data:image/webp;base64,") <= the
\* max_b64_chars of that call.
C1_BudgetInvariant ==
    enc.pc = "returned" =>
        enc.result.b64_chars + PrefixLen <= enc.max_b64_chars

\* C4: the preview cache never holds more than 100 entries; after 101
\* distinct keys it holds exactly 100, the first key gone and the 101st there.
C4_CacheCapacity ==
    /\ Len(cache) <= 100
    /\ (calls = 101 /\ CacheIndex(cache, CacheKey(101, 512, StartQuality)) # {}) =>
          /\ Len(cache) = 100
          /\ CacheIndex(cache, CacheKey(1, 512, StartQuality)) = {}

\* C11: every image the encoder encodes, on a ladder step or on the
\* last-resort pass, and the preview it returns are no wider and no higher
\* than the source, each side at least 1; a 100x100 source with max_dim 512
\* is returned no larger than 100x100.
C11_NeverUpscale ==
    /\ enc.encodes > 0 =>
          /\ 1 <= enc.tried[1] /\ enc.tried[1] <= enc.src[1]
          /\ 1 <= enc.tried[2] /\ enc.tried[2] <= enc.src[2]
    /\ enc.pc = "returned" =>
          /\ 1 <= enc.result.size_px[1] /\ enc.result.size_px[1] <= enc.src[1]
          /\ 1 <= enc.result.size_px[2] /\ enc.result.size_px[2] <= enc.src[2]
    /\ (enc.pc = "returned" /\ enc.src = <<100, 100>> /\ enc.max_dim = 512) =>
          enc.result.size_px = <<100, 100>>

\* the 100x100 source returned at max_dim 512 by an encode of the ladder
C11_Witness ==
    /\ enc.pc = "returned"
    /\ ~enc.fromCache
    /\ enc.src = <<100, 100>>
    /\ enc.max_dim = 512
    /\ enc.result.size_px = <<100, 100>>

\* C12: the last-resort encode is made only after the 3 x 3 encodes of the
\* ladder have all failed, and only once; a call that raises has made it,
\* and its error gives the character count reached and the budget; a call
\* with a budget below the prefix length never returns; and a call that
\* raises leaves the cache as it was.
C12_ExplicitBudgetFailure ==
    /\ [](/\ enc.pc = "last" => enc.encodes = 9
          /\ enc.pc = "raised" =>
                /\ enc.encodes = 10
                /\ enc.error.raised
                /\ enc.error.max_b64_chars = enc.max_b64_chars
                /\ enc.error.b64_chars + PrefixLen > enc.max_b64_chars
          /\ (enc.pc \in {"returned", "raised"} /\ enc.max_b64_chars < PrefixLen) =>
                enc.pc = "raised")
    /\ [][(enc'.pc = "raised" /\ enc.pc # "raised") => cache' = cache]_vars

\* C13: a call makes at most 3 x 3 encodes of the ladder plus one last-resort
\* encode, is always in one of its defined states, and a call that has
\* started encoding ends, returning a preview or raising the budget error.
C13_LadderTerminates ==
    /\ [](/\ enc.encodes <= 10
          /\ enc.pc \in {"idle", "ladder", "last", "returned", "raised"}
          /\ enc.pc = "ladder" => (enc.encodes < 9 /\ enc.ti \in 1..3 /\ enc.qi \in 1..3)
          /\ enc.pc = "raised" => enc.error.raised)
    /\ (enc.pc \in {"ladder", "last"}) ~> (enc.pc \in {"returned", "raised"})

\* a call that went through the whole ladder and the last-resort pass
C13_Witness ==
    /\ enc.pc \in {"returned", "raised"}
    /\ enc.encodes = 10

----------------------------------------------------------------------------
(* Claims about the asset URL (SpecExtract) *)

\* the position of a piece in the URL of the result (0 when it is not there)
UrlIndex(piece) ==
    IF \E i \in 1..Len(xResult.asset_url) : xResult.asset_url[i] = piece
    THEN CHOOSE i \in 1..Len(xResult.asset_url) : xResult.asset_url[i] = piece
    ELSE 0

\* the value of the filename parameter: what stands between "/view?filename="
\* and the next parameter
FilenameValue ==
    SubSeq(xResult.asset_url, 3,
           (IF UrlIndex("&subfolder=") > 0 THEN UrlIndex("&subfolder=")
            ELSE UrlIndex("&type=")) - 1)

\* the value of the subfolder parameter
SubfolderValue ==
    SubSeq(xResult.asset_url, UrlIndex("&subfolder=") + 1, UrlIndex("&type=") - 1)

\* urllib.parse.unquote of one piece of a quoted value
Unquoted(c) ==
    CASE c = "%20" -> " "
      [] c = "%26" -> "&"
      [] c = "%2F" -> "/"
      [] c = "%3F" -> "?"
      [] OTHER -> c

PercentCodes == {"%20", "%26", "%2F", "%3F"}

\* a quoted value: unreserved characters and %XX only
IsQuoted(value) ==
    \A i \in 1..Len(value) : value[i] \in Unreserved \cup PercentCodes

\* C14: the URL of an extracted asset has a subfolder parameter if and only
\* if the subfolder is non-empty, and then with a non-empty value; it always
\* has the filename parameter and, last, a type parameter whose value is the
\* asset's type ("output" when the asset has none); the filename and
\* subfolder values are percent-encoded (no space, "&" or "/" is left) and
\* decode to the asset's filename and subfolder.
C14_UrlBuilding ==
    xResult.kind = "found" =>
        /\ xResult.asset_url[1] = BaseUrl
        /\ xResult.asset_url[2] = "/view?filename="
        /\ (UrlIndex("&subfolder=") > 0) <=> (xResult.subfolder # "")
        /\ UrlIndex("&subfolder=") > 0 => SubfolderValue # <<>>
        /\ UrlIndex("&type=") = Len(xResult.asset_url) - 1
        /\ xResult.asset_url[Len(xResult.asset_url)] = xResult.type
        /\ \E i \in 1..Len(XNodes), j \in 1..Len(xKeys) :
              /\ MatchAt(i, j)
              /\ XNodes[i].out[xKeys[j]].items[1].filename = xResult.filename
              /\ xResult.type = IF XNodes[i].out[xKeys[j]].items[1].type = ""
                                THEN "output"
                                ELSE XNodes[i].out[xKeys[j]].items[1].type
        /\ FilenameValue # <<>>
        /\ IsQuoted(FilenameValue)
        /\ [i \in 1..Len(FilenameValue) |-> Unquoted(FilenameValue[i])]
              = Chars(xResult.filename)
        /\ UrlIndex("&subfolder=") > 0 =>
              /\ IsQuoted(SubfolderValue)
              /\ [i \in 1..Len(SubfolderValue) |-> Unquoted(SubfolderValue[i])]
                    = Chars(xResult.subfolder)

\* the asset "a b&c.png" in "sub/dir": the space is encoded
C14_Witness ==
    /\ xResult.kind = "found"
    /\ xResult.filename = "a b&c.png"
    /\ xResult.subfolder = "sub/dir"
    /\ UrlIndex("%20") > 0
    /\ UrlIndex("%2F") > UrlIndex("&subfolder=")
    /\ xResult.type = "temp"

----------------------------------------------------------------------------
(* More claims about the poll and the tool call (Spec) *)

\* C15: once the poll has ended Completed or Failed, no further attempt is
\* made and the outcome stays; and a Completed job whose outputs hold a
\* matching asset is delivered as that asset, whatever the metadata scan, the
\* HEAD request and the history snapshot do.
C15_TerminalIsFinal ==
    /\ [][pollOutcome.kind \in {"Completed", "Failed"} =>
             (attempt' = attempt /\ pollOutcome' = pollOutcome)]_vars
    /\ []((pc = "done" /\ pollOutcome.kind = "Completed"
             /\ _extract_first_asset_info(pollOutcome.outputs, DefaultKeys).kind = "found") =>
            (runResult.kind = "asset" /\ toolResult.kind = "asset"))

----------------------------------------------------------------------------
(* More claims about the preview cache (SpecCache) *)

HasJobId(response) ==
    response.body = "dict" /\ response.id.t = "string" /\ response.id.s # ""

\* the submission raised: no poll attempt was made, no history was read, the
\* tool returned an error and neither a job id nor a handle came back
SubmissionFailed ==
    /\ pc = "done"
    /\ runResult.kind = "raise"
    /\ toolResult.kind = "error"
    /\ attempt = 0
    /\ lastResp = NoResponse
    /\ pollOutcome = NoOutcome
    /\ prompt_id = ""
    /\ registered = <<>>

\* C18: when the engine answers POST /prompt with a status that is no
\* success or with a response without a job identifier, _queue_workflow
\* raises, run_custom_workflow polls nothing and returns no handle; a job id
\* that _queue_workflow returns is never empty.
C18_SubmissionFailure ==
    /\ (submitReply # NoReply
            /\ (submitReply.status_code \notin 200..299 \/ ~HasJobId(submitReply)))
          => SubmissionFailed
    /\ pc \in {"polling", "polled"} => prompt_id # ""
    /\ (pc = "done" /\ attempt > 0) => prompt_id # ""

C18_Witness ==
    /\ submitReply = Reply(200, "dict", IdString(""))
    /\ SubmissionFailed
    /\ toolResult.error = "Response missing prompt_id"

\* C19: overlapping inserts into the preview cache are safe: whatever the
\* interleaving of two calls of _cache_preview, no call raises, no key is
\* held twice and the cache is never above its capacity.
C19_ConcurrentInsertsSafe ==
    /\ \A t \in Threads : threads[t].pc # "raised"
    /\ \A i, j \in 1..Len(cache) : cache[i].key = cache[j].key => i = j
    /\ Len(cache) <= CacheLimit

\* what the file system holds at subfolder/filename under the output root
SourceReal ==
    canonicalize_path(IF srcCall.subfolder.parts # <<>> \/ srcCall.subfolder.abs
                      THEN Join(Join(srcCall.root, srcCall.subfolder), srcCall.filename)
                      ELSE Join(srcCall.root, srcCall.filename), srcCall.lexical)
RootReal == canonicalize_path(srcCall.root, srcCall.lexical)
InsideRoot(path) == RootReal.ok /\ IsPrefix(RootReal.path, path)

\* C20: resolve_source_path returns only the resolved path of an existing
\* regular file inside the resolved output root; a subfolder and filename
\* that resolve outside the root, or to nothing, raise ValueError and
\* return no path.
C20_SourceContainment ==
    srcCall.called =>
        /\ srcCall.result.kind = "path" =>
              /\ srcCall.configured
              /\ SourceReal.ok
              /\ srcCall.result.path = SourceReal.path
              /\ InsideRoot(srcCall.result.path)
              /\ srcCall.result.path \in DOMAIN FileTree
              /\ FileTree[srcCall.result.path].type = "file"
        /\ (~SourceReal.ok \/ ~InsideRoot(SourceReal.path)) =>
              /\ srcCall.result.kind = "ValueError"
              /\ srcCall.result.path = <<>>

C20_Witness ==
    /\ srcCall.called
    /\ srcCall.configured
    /\ srcCall.root = PathOf(TRUE, OutputRoot)
    /\ srcCall.subfolder = PathOf(FALSE, <<"..", "..", "outside">>)
    /\ srcCall.filename = PathOf(FALSE, <<"test.png">>)
    /\ SourceReal = Resolved(TRUE, <<"t", "outside", "test.png">>)
    /\ srcCall.result = SrcResult("ValueError", <<>>, "outside ComfyUI output root")

\* C21: copy_asset called with overwrite=False on a target that exists
\* raises ValueError, leaves the target as it was, writes no temp file and
\* appends nothing to the publish log.
C21_NoOverwritePreserves ==
    (copy.pc # "idle" /\ ~copy.overwrite /\ copy.targetBefore.exists) =>
        /\ copy.pc = "raised"
        /\ copy.result.kind = "ValueError"
        /\ target_path = copy.targetBefore
        /\ ~copy.wroteTemp
        /\ temp_path = NoFile
        /\ Len(publish_log) = copy.logBefore

C21_Witness ==
    /\ copy.pc = "raised"
    /\ ~copy.overwrite
    /\ copy.source.name = "test.png"
    /\ copy.targetBefore = FileOf("tiny.webp", 50)
    /\ target_path = FileOf("tiny.webp", 50)
    /\ copy.result.error = "overwrite=False"
    /\ Len(publish_log) = 1

\* C22: copy_asset with web_optimize=True on an image either publishes a
\* file of at most max_bytes or raises ValueError, and after the raise the
\* target is what it was and no temp file remains (calls ended by an I/O or
\* encoder error apart).
C22_PublishSizeBound ==
    (/\ copy.pc \in {"returned", "raised"}
     /\ copy.web_optimize
     /\ is_image(copy.source)
     /\ copy.result.kind # "OSError") =>
        \/ /\ copy.pc = "returned"
           /\ target_path.exists
           /\ target_path.size = copy.result.bytes_size
           /\ target_path.size <= copy.max_bytes
           /\ temp_path = NoFile
        \/ /\ copy.pc = "raised"
           /\ copy.result.kind = "ValueError"
           /\ target_path = copy.targetBefore
           /\ temp_path = NoFile

\* the call of thread t returns in this step
UpdateReturns(t) == updaters[t].pc = "write" /\ updaters'[t].pc = "returned"

\* the step sets key to filename and keeps every other entry of the manifest
KeepsOthers(t) ==
    /\ manifest'.exists
    /\ updaters[t].key \in DOMAIN manifest'.entries
    /\ manifest'.entries[updaters[t].key] = updaters[t].filename
    /\ \A k \in (DOMAIN manifest.entries) \ {updaters[t].key} :
          k \in DOMAIN manifest'.entries /\ manifest'.entries[k] = manifest.entries[k]

\* every key of a returned call is in the manifest
AllReturnedKept ==
    \A t \in Threads :
       updaters[t].pc = "returned" => updaters[t].key \in DOMAIN manifest.entries

\* C23 as stated: every update_manifest call that returns sets its key and
\* keeps every other entry of the manifest, and the keys of all returned
\* calls are in the manifest, whatever the interleaving.
C23_NoLostUpdateAsStated ==
    /\ [][\A t \in Threads : UpdateReturns(t) => KeepsOthers(t)]_vars
    /\ [](AllReturnedKept)

\* C23: every update_manifest call that returns sets its key; when it could
\* read the manifest it keeps every other entry, and when the read failed
\* the manifest holds the new entry alone; while no read has failed the
\* keys of all returned calls are in the manifest, whatever the interleaving.
C23_NoLostUpdate ==
    /\ [][\A t \in Threads : UpdateReturns(t) =>
            IF updaters[t].readOk THEN KeepsOthers(t)
            ELSE manifest' = ManifestOf(updaters[t].key :> updaters[t].filename)]_vars
    /\ []((\A t \in Threads : updaters[t].clean) => AllReturnedKept)

C23_Witness ==
    /\ updaters[1].pc = "returned" /\ updaters[1].key = "hero"
    /\ updaters[2].pc = "returned" /\ updaters[2].key = "logo"
    /\ updaters[1].clean /\ updaters[2].clean
    /\ updaters[1].n = 1 /\ updaters[2].n = 1
    /\ DOMAIN manifest.entries = {"site", "hero", "logo"}
    /\ manifest.entries["site"] = "site.png"

\* the records of before that have not expired at time t
Live(before, t) == {i \in DOMAIN before : ~(t > before[i].expires_at)}

\* C24: get_asset and get_asset_by_url return a record only if its
\* expires_at has not passed; get_asset on an expired record returns None
\* and removes it, and on a record that has not expired returns it;
\* cleanup_expired removes exactly the expired records.
C24_ExpiredNeverServed ==
    /\ (lookup.op \in {"get_asset", "get_asset_by_url"} /\ lookup.result # NoRecord) =>
          /\ ~(lookup.at > lookup.result.expires_at)
          /\ lookup.result.asset_id \in DOMAIN lookup.before
          /\ lookup.before[lookup.result.asset_id] = lookup.result
    /\ (lookup.op = "get_asset" /\ lookup.asset_id \in DOMAIN lookup.before) =>
          IF lookup.asset_id \in Live(lookup.before, lookup.at)
          THEN lookup.result = lookup.before[lookup.asset_id] /\ _assets = lookup.before
          ELSE lookup.result = NoRecord /\ lookup.asset_id \notin DOMAIN _assets
    /\ lookup.op = "cleanup_expired" =>
          /\ DOMAIN _assets = Live(lookup.before, lookup.at)
          /\ \A i \in DOMAIN _assets : _assets[i] = lookup.before[i]

C24_Witness ==
    /\ lookup.op = "get_asset"
    /\ lookup.asset_id = 1
    /\ 1 \in DOMAIN lookup.before
    /\ lookup.at > lookup.before[1].expires_at
    /\ lookup.result = NoRecord
    /\ 1 \notin DOMAIN _assets
    /\ 2 \in DOMAIN _assets

\* C30: every entry of the URL index points to an asset id present in the
\* registry, and get_asset_by_url(u) returns a record that has not expired
\* whenever a record with URL u that has not expired was registered at the
\* call.
C30_UrlIndexConsistent ==
    /\ \A u \in DOMAIN _url_to_asset_id : _url_to_asset_id[u] \in DOMAIN _assets
    /\ (/\ lookup.op = "get_asset_by_url"
        /\ \E i \in Live(lookup.before, lookup.at) :
              lookup.before[i].asset_url = lookup.asset_url) =>
          /\ lookup.result # NoRecord
          /\ lookup.result.asset_url = lookup.asset_url
          /\ ~(lookup.at > lookup.result.expires_at)

\* the pairs of the ladder in the order the claim gives: targets
\* [max_dim, 384, 256] outside, qualities [starting quality, 55, 40] inside
LadderOrder(max_dim) ==
    <<Pair(max_dim, StartQuality, FALSE), Pair(max_dim, 55, FALSE), Pair(max_dim, 40, FALSE),
      Pair(384, StartQuality, FALSE), Pair(384, 55, FALSE), Pair(384, 40, FALSE),
      Pair(256, StartQuality, FALSE), Pair(256, 55, FALSE), Pair(256, 40, FALSE)>>

\* C25: a call of encode_preview_for_mcp that runs the ladder tries the pairs
\* in the order targets [max_dim, 384, 256] outside, qualities
\* [starting quality, 55, 40] inside; the first pair within budget ends the
\* ladder and its encoding is returned; an image is resized for a pair only
\* when its larger side exceeds the pair's target.
C25_GreedyLadderOrder ==
    ~enc.fromCache =>
        /\ Len(enc.pairs) <= Len(LadderOrder(enc.max_dim))
        /\ \A i \in 1..Len(enc.pairs) :
              /\ enc.pairs[i].target = LadderOrder(enc.max_dim)[i].target
              /\ enc.pairs[i].quality = LadderOrder(enc.max_dim)[i].quality
              /\ i < Len(enc.pairs) => ~enc.pairs[i].fits
        /\ (Len(enc.pairs) > 0 /\ enc.pairs[Len(enc.pairs)].fits) =>
              /\ enc.pc = "returned"
              /\ B64Len(enc.result.bytes_len) + PrefixLen <= enc.max_b64_chars
              /\ enc.result.size_px = enc.tried
              /\ Larger(enc.src[1], enc.src[2]) <= enc.pairs[Len(enc.pairs)].target
                    => enc.result.size_px = enc.src
        /\ (enc.pc = "ladder" /\ Len(enc.pairs) > 0) => ~enc.pairs[Len(enc.pairs)].fits
        /\ (enc.pc \in {"returned", "raised"} /\ ~(Len(enc.pairs) > 0 /\ enc.pairs[Len(enc.pairs)].fits))
              => Len(enc.pairs) = Len(LadderOrder(enc.max_dim))

C25_Witness ==
    /\ enc.pc = "returned"
    /\ ~enc.fromCache
    /\ enc.max_dim = 512
    /\ enc.src = <<4000, 3000>>
    /\ Len(enc.pairs) = 5
    /\ enc.pairs[5] = Pair(384, 55, TRUE)
    /\ enc.result.size_px = <<384, 288>>

\* The larger side of the image encoded at rung i of the ladder, before
\* rounding: the rung's target when the source exceeds it, else the source's.
TriedDim(i) ==
    LET larger == Larger(enc.src[1], enc.src[2])
    IN  IF larger > enc.pairs[i].target THEN enc.pairs[i].target ELSE larger

\* C29: max_dim is a hard cap: the larger side of every preview that
\* encode_preview_for_mcp encodes and returns is at most max_dim, and the
\* sizes tried down the ladder never increase.
C29_MaxDimHardCap ==
    ~enc.fromCache =>
        /\ enc.pc = "returned" =>
              Larger(enc.result.size_px[1], enc.result.size_px[2]) <= enc.max_dim
        /\ \A i \in 1..Len(enc.pairs) :
              /\ TriedDim(i) <= enc.max_dim
              /\ i > 1 => TriedDim(i) <= TriedDim(i - 1)

\* C26: the status classifier never crashes: whatever the shape of the job
\* entry's status and of its messages, a poll attempt ends in retry,
\* Completed or Failed and never in an exception that no except clause of
\* the loop catches, and _extract_node_errors, applied to the job entry the
\* attempt has read, returns a diagnostic instead of raising.
C26_ClassifierNeverCrashes ==
    /\ pollOutcome.kind # "Crashed"
    /\ (attempt > 0 /\ lastResp.kind = "entry") =>
          ~ExtractNodeErrorsRaises(lastResp.entry)

\* the status of the job entry is a dict whose messages hold a structured
\* execution_error entry with a node id
HasNodeIdEntry(entry) ==
    /\ entry.status.shape = "dict"
    /\ entry.status.messages.shape = "list"
    /\ \E i \in 1..Len(entry.status.messages.items) :
          /\ IsErrorPair(entry.status.messages.items[i])
          /\ entry.status.messages.items[i].form = "pair"

\* the diagnostic text holds the node id of the entry's execution_error: the
\* structured tier prints it, and the dump of the messages list holds it
\* when the list does
DiagHasNodeId(diag, entry) ==
    \/ diag = "structured"
    \/ diag = "messages" /\ HasNodeIdEntry(entry)

\* C27: failure diagnostics follow the tier order: the diagnostic of every
\* Failed outcome of the poll is non-empty and is the one of the first
\* applicable tier among structured execution_error messages, legacy
\* entries, the top-level error field and the raw status dump; and when the
\* status has status_str "error" and a structured execution_error entry with
\* a node id, the diagnostic holds that node id.
C27_DiagnosticTierOrder ==
    (pollOutcome.kind = "Failed" /\ lastResp.kind = "entry") =>
        /\ pollOutcome.diag # ""
        /\ pollOutcome.diag = _extract_node_errors(lastResp.entry)
        /\ (lastResp.entry.status.status_str = "error"
              /\ HasNodeIdEntry(lastResp.entry)) =>
              DiagHasNodeId(pollOutcome.diag, lastResp.entry)

\* C28: the inferred mime type belongs to the extracted asset: when
\* run_custom_workflow returns an asset, a mime type inferred from a
\* filename extension is the one of the filename that
\* _extract_first_asset_info returned, also when several nodes produce
\* assets of different kinds.
C28_MimeOfExtractedAsset ==
    runResult.kind = "asset" =>
        /\ MimeOf(runResult.info.filename) # "" =>
              runResult.mime_type = MimeOf(runResult.info.filename)
        /\ runResult.mime_type \notin {"", "content-type"} =>
              runResult.mime_type = MimeOf(runResult.info.filename)

====
